---- MODULE Spec2Model ----
(***************************************************************************)
(* A model of TSCP (Tom Kerrigan's Simple Chess Program, Rust port): the   *)
(* board and move generator of board.rs, the evaluator of eval.rs and the  *)
(* iterative-deepening search of search.rs.                                *)
(*                                                                         *)
(* Conventions.  Arrays of the program are TLA+ tuples; the program's      *)
(* index k is the tuple's index k + 1.  A Move (the union of MoveBytes and *)
(* Int in defs.rs) is held as its integer value u; bytes(m) decodes it.    *)
(***************************************************************************)
EXTENDS Integers, Sequences, FiniteSets, TLC

\* ------------------------------------------------------------------ defs.rs

GEN_STACK == 1120
MAX_PLY == 32
HIST_STACK == 400

LIGHT == 0
DARK == 1

PAWN == 0
KNIGHT == 1
BISHOP == 2
ROOK == 3
QUEEN == 4
KING == 5

EMPTY == 6

A1 == 56
B1 == 57
C1 == 58
D1 == 59
E1 == 60
F1 == 61
G1 == 62
H1 == 63
A8 == 0
B8 == 1
C8 == 2
D8 == 3
E8 == 4
F8 == 5
G8 == 6
H8 == 7

\* row!(x) is x >> 3 and col!(x) is x & 7
row(x) == x \div 8

col(x) == x % 8

\* bit b (a power of two) of the bit field x: (x & b) != 0
Bit(x, b) == (x \div b) % 2 = 1

\* x & y on the four castle bits
BitAnd4(x, y) ==
  (IF Bit(x, 1) /\ Bit(y, 1) THEN 1 ELSE 0) + (IF Bit(x, 2) /\ Bit(y, 2) THEN 2 ELSE 0)
  + (IF Bit(x, 4) /\ Bit(y, 4) THEN 4 ELSE 0) + (IF Bit(x, 8) /\ Bit(y, 8) THEN 8 ELSE 0)

\* x | 32 on a move's bits
BitOr32(x) == IF Bit(x, 32) THEN x ELSE x + 32

\* s ^ 1 on a side
Other(s) == 1 - s

\* Rust's integer division truncates toward zero
TruncDiv(a, b) == IF a >= 0 THEN a \div b ELSE -((-a) \div b)

\* The union Move: its integer value from its four bytes, and back.
MoveValue(from, to, promote, bits) == from + 256 * to + 65536 * promote + 16777216 * bits

bytes(m) ==
  [from |-> m % 256, to |-> (m \div 256) % 256,
   promote |-> (m \div 65536) % 256, bits |-> (m \div 16777216) % 256]

\* ------------------------------------------------------------------ data.rs

MAILBOX ==
  <<
     -1,  -1,  -1,  -1,  -1,  -1,  -1,  -1,  -1,  -1,
     -1,  -1,  -1,  -1,  -1,  -1,  -1,  -1,  -1,  -1,
     -1,   0,   1,   2,   3,   4,   5,   6,   7,  -1,
     -1,   8,   9,  10,  11,  12,  13,  14,  15,  -1,
     -1,  16,  17,  18,  19,  20,  21,  22,  23,  -1,
     -1,  24,  25,  26,  27,  28,  29,  30,  31,  -1,
     -1,  32,  33,  34,  35,  36,  37,  38,  39,  -1,
     -1,  40,  41,  42,  43,  44,  45,  46,  47,  -1,
     -1,  48,  49,  50,  51,  52,  53,  54,  55,  -1,
     -1,  56,  57,  58,  59,  60,  61,  62,  63,  -1,
     -1,  -1,  -1,  -1,  -1,  -1,  -1,  -1,  -1,  -1,
     -1,  -1,  -1,  -1,  -1,  -1,  -1,  -1,  -1,  -1
  >>

MAILBOX64 ==
  <<
     21,  22,  23,  24,  25,  26,  27,  28,
     31,  32,  33,  34,  35,  36,  37,  38,
     41,  42,  43,  44,  45,  46,  47,  48,
     51,  52,  53,  54,  55,  56,  57,  58,
     61,  62,  63,  64,  65,  66,  67,  68,
     71,  72,  73,  74,  75,  76,  77,  78,
     81,  82,  83,  84,  85,  86,  87,  88,
     91,  92,  93,  94,  95,  96,  97,  98
  >>

\* CASTLE_MASK when a move from or to a8 leaves the castle bits alone
CASTLE_MASK_a8_kept ==
  <<
     15,  15,  15,  15,   3,  15,  15,  11,
     15,  15,  15,  15,  15,  15,  15,  15,
     15,  15,  15,  15,  15,  15,  15,  15,
     15,  15,  15,  15,  15,  15,  15,  15,
     15,  15,  15,  15,  15,  15,  15,  15,
     15,  15,  15,  15,  15,  15,  15,  15,
     15,  15,  15,  15,  15,  15,  15,  15,
     13,  15,  15,  15,  12,  15,  15,  14
  >>

CASTLE_MASK ==
  <<
      7,  15,  15,  15,   3,  15,  15,  11,
     15,  15,  15,  15,  15,  15,  15,  15,
     15,  15,  15,  15,  15,  15,  15,  15,
     15,  15,  15,  15,  15,  15,  15,  15,
     15,  15,  15,  15,  15,  15,  15,  15,
     15,  15,  15,  15,  15,  15,  15,  15,
     15,  15,  15,  15,  15,  15,  15,  15,
     13,  15,  15,  15,  12,  15,  15,  14
  >>

INIT_COLOR ==
  <<
      1,   1,   1,   1,   1,   1,   1,   1,
      1,   1,   1,   1,   1,   1,   1,   1,
      6,   6,   6,   6,   6,   6,   6,   6,
      6,   6,   6,   6,   6,   6,   6,   6,
      6,   6,   6,   6,   6,   6,   6,   6,
      6,   6,   6,   6,   6,   6,   6,   6,
      0,   0,   0,   0,   0,   0,   0,   0,
      0,   0,   0,   0,   0,   0,   0,   0
  >>

SLIDE == <<FALSE, FALSE, TRUE, TRUE, TRUE, FALSE>>

OFFSETS == <<0, 8, 4, 4, 8, 8>>

OFFSET ==
  <<
    <<  0,   0,   0,  0, 0,  0,  0,  0>>,
    <<-21, -19, -12, -8, 8, 12, 19, 21>>,
    <<-11,  -9,   9, 11, 0,  0,  0,  0>>,
    <<-10,  -1,   1, 10, 0,  0,  0,  0>>,
    <<-11, -10,  -9, -1, 1,  9, 10, 11>>,
    <<-11, -10,  -9, -1, 1,  9, 10, 11>>
  >>

INIT_PIECE ==
  <<
      3,   1,   2,   4,   5,   2,   1,   3,
      0,   0,   0,   0,   0,   0,   0,   0,
      6,   6,   6,   6,   6,   6,   6,   6,
      6,   6,   6,   6,   6,   6,   6,   6,
      6,   6,   6,   6,   6,   6,   6,   6,
      6,   6,   6,   6,   6,   6,   6,   6,
      0,   0,   0,   0,   0,   0,   0,   0,
      3,   1,   2,   4,   5,   2,   1,   3
  >>

\* ------------------------------------------------------------ board.rs: hash

(***************************************************************************)
(* init_hash() fills hash_piece, hash_side and hash_ep from the C          *)
(* library's rand() after srand(0); hash_rand() XORs 32 draws, each        *)
(* shifted left by one within 32 bits.  The tables below are the values    *)
(* the GNU C library's generator yields.  Bit 0 of every such value is 0   *)
(* and the program only XORs and compares them, so a hash value h of the   *)
(* program is held as bits 1..31 of its 32-bit pattern, h >> 1.            *)
(***************************************************************************)
HASH_PIECE ==
  <<
   <<
    <<
      1588166655, 1809476521, 379493883, 1525754710, 1728488509, 932982691,
      1613827105, 1588203696, 459390264, 91400892, 262573546, 1915967595,
      1815507151, 785079657, 2080357123, 2062371928, 1401131132, 1813488910,
      732441354, 252689116, 1643854996, 771969480, 503884680, 1257507341,
      38507342, 754300225, 332241819, 819040661, 1594058213, 230218140,
      926242717, 1978368397, 1754428282, 2002255248, 2145471596, 1763893480,
      1254492961, 1005365440, 1464192407, 1183924145, 56851217, 612987439,
      1180664610, 1454535265, 1154829406, 2138836250, 745104317, 1780504070,
      1421240674, 1037303079, 406121940, 1596355907, 1808402457, 1968950308,
      72909466, 1636960998, 1822524365, 902554785, 1035127508, 363019447,
      1566515657, 1544521476, 1044060992, 479477533
    >>,
    <<
      1028498765, 1042825166, 1188870052, 1178803162, 903930363, 307613142,
      1005458756, 1745660880, 1567898996, 2046709073, 784535898, 1451269833,
      162859468, 1381128339, 2108447434, 986382584, 1332470676, 2103186194,
      1667559130, 128243997, 625020928, 671552244, 2071067584, 496935214,
      143356760, 615519600, 1203328238, 259544600, 1072498984, 1671272648,
      1847908885, 565478451, 1857730549, 116744318, 1860181924, 1306879413,
      209822682, 2124995952, 1705633744, 1346404969, 937536964, 2097920455,
      1115153953, 2106917335, 1449042034, 921470890, 1830608208, 41832082,
      532260858, 612455287, 1275085387, 283724228, 232139171, 1329813766,
      1970985067, 1164691368, 176918000, 1806522883, 1492338269, 1628195354,
      1106174328, 416284781, 615293884, 1815369103
    >>,
    <<
      2145744844, 1620960491, 426214093, 570040851, 707145051, 1148689719,
      964877320, 630501774, 1270272592, 245388223, 280854939, 496976752,
      1877318395, 1721699794, 2023284382, 733568442, 1225222408, 1552336196,
      1163981743, 446585025, 806300603, 1969934985, 881539413, 1742283740,
      1341922613, 1597962853, 537111154, 1368360873, 404187694, 145335481,
      370077644, 1299092384, 454259926, 1886263492, 897213202, 1886570809,
      1324304994, 1562440611, 1507726055, 1762446894, 829076478, 1616598491,
      216157708, 1665461479, 2105709976, 2041329553, 1792912513, 1889340011,
      639341612, 613096632, 463400545, 92563297, 1010395186, 2040948732,
      1514276493, 378373938, 941757756, 222778444, 203339873, 1754859144,
      623074391, 397597189, 449919793, 1950198542
    >>,
    <<
      1447308985, 34130826, 2029869122, 1040122981, 1607905353, 1319937906,
      135757699, 775058382, 731550350, 330647889, 2005317189, 1319622082,
      475480559, 1214102633, 1831057199, 1206859928, 773038841, 1808342293,
      1679157617, 730191728, 123189587, 941129253, 1103954841, 860254327,
      13728912, 913021179, 855238639, 914436664, 151349858, 835714719,
      1446740568, 1752629014, 1522371145, 810932681, 1962107247, 1150668186,
      366922711, 271151973, 1649672566, 100017299, 732097162, 566499013,
      1527979042, 2018562453, 129745256, 2011945820, 1534929075, 1054791210,
      1483124174, 1281997710, 1012377873, 919284502, 36647150, 1737749738,
      915592409, 595697838, 251129153, 1079804364, 1156456311, 1290305937,
      1228522298, 1350013194, 789020456, 89843000
    >>,
    <<
      1365715235, 2107132771, 1790644057, 144846443, 1212928677, 1307430280,
      1109872012, 230171140, 912286970, 1969623111, 1511366081, 1576580855,
      2110057733, 1799581082, 1604093648, 1850253028, 12663866, 1511867181,
      990794293, 1044656548, 768270408, 687950586, 1490820883, 159856117,
      1965999517, 779724184, 1521126048, 104523723, 1508418534, 2080771105,
      204007620, 230615750, 891907343, 757229330, 1905255543, 1600288488,
      799534322, 185704958, 1216016274, 1511233700, 1229823273, 868041479,
      915918626, 1052331645, 1012649408, 687964255, 1179891989, 331534689,
      907026310, 1825699255, 485718697, 272854624, 1549672844, 734835278,
      1934593120, 255749267, 1994010040, 2074976274, 271706365, 1223418530,
      695501126, 1362454644, 442238847, 1094282111
    >>,
    <<
      1753187058, 1113172250, 113605228, 536368400, 1297289512, 404339720,
      1869353070, 983094321, 226198043, 317528106, 1491870036, 1168604460,
      281570777, 1796867441, 911536222, 665875316, 500069681, 835477129,
      345814415, 1946338007, 1846018090, 574009340, 1993076184, 916084960,
      88161337, 65145018, 2029017784, 1633487922, 1223605718, 628266937,
      1357137328, 1419827890, 1423847376, 2018752402, 138942721, 1024893830,
      287800112, 1174544314, 1416334539, 219061438, 1629434784, 2096338247,
      931922891, 251302853, 467457232, 1745333100, 2068535505, 1742954587,
      1592922417, 1001350308, 1904771666, 1328848137, 1086344331, 392194914,
      250524393, 674206843, 662733992, 1218796686, 1786022412, 456216719,
      979191808, 1276734949, 1936330437, 1879031367
    >>
   >>,
   <<
    <<
      548792006, 249700053, 47963708, 575918852, 2072968469, 384207412,
      1125230596, 7296011, 1135605430, 1732376993, 1370498168, 1835176861,
      1986541302, 1956584086, 434201971, 1010616332, 2027289571, 1348054491,
      1641345175, 1975680998, 2040917924, 491163197, 836110512, 1126420143,
      1021945840, 195794655, 1519492511, 228583692, 1597076960, 1914416660,
      1210357583, 950901042, 1637326225, 588631583, 1253483117, 1267987188,
      52419412, 1889956395, 350427311, 747999074, 1522676620, 1160278870,
      2090166422, 49507492, 558378840, 233960143, 901406413, 894637835,
      548544498, 1765362182, 1845110672, 1489642582, 522587049, 1054305433,
      270622078, 725963813, 743659, 711576017, 1691631532, 2112100598,
      318188896, 1874305854, 31569502, 1393906719
    >>,
    <<
      851362118, 1227510860, 330140556, 1355444756, 1356809630, 1184591341,
      64500135, 1253129321, 205839844, 377068179, 1496177481, 301389956,
      1228043681, 1866772332, 869706265, 322928731, 356719979, 393413806,
      1326630315, 1054020002, 1762218164, 1512414703, 366973091, 1227156296,
      972379263, 1656977515, 601392776, 494825159, 692292042, 747012928,
      1548624277, 484317099, 116152970, 971810559, 364387347, 1647963971,
      494820698, 1698580399, 1367998086, 855224373, 45441782, 1280908329,
      906088066, 1342991430, 2014984964, 1622014674, 203243238, 1644258055,
      181994412, 53390833, 1920564880, 924847534, 450375614, 1013278485,
      1528906764, 1218936380, 825553622, 2101079463, 1442125415, 896066623,
      1499784202, 323091399, 1853694016, 26489380
    >>,
    <<
      916065122, 501122861, 1458764680, 1569580832, 252726081, 2087292565,
      13066269, 297239445, 1577545516, 999016545, 1327071636, 1803659022,
      523908232, 682907099, 540529587, 1713248877, 1701431484, 698823575,
      1832145764, 1801953773, 585384117, 627583886, 2102915008, 712471644,
      2145703513, 2127774895, 23631708, 2116835826, 736189926, 880038198,
      159091453, 1476077635, 660730144, 1860698086, 680064041, 2001478841,
      1605207379, 1557812903, 268736321, 568389115, 1453852576, 1597028057,
      106640255, 1365785140, 887880741, 663890355, 1349129135, 134981308,
      639804867, 1080662803, 201675856, 443194721, 1677424911, 121589513,
      2063553883, 30990802, 494720768, 632104536, 546757922, 137626309,
      1539647486, 278908816, 222584839, 1424359200
    >>,
    <<
      2016608319, 1847580051, 1803482384, 1189009788, 1105508172, 957519,
      205378611, 1654878039, 1868265457, 1909652235, 651522457, 2022718116,
      91417030, 785645536, 295218262, 481950762, 1927275349, 438728530,
      974041672, 1678952991, 1844992167, 580734919, 328388596, 1704730047,
      1093115374, 753553650, 1150319816, 1946739803, 187958741, 94017622,
      1848740207, 1192842045, 167860825, 842253193, 1270126786, 517065615,
      793711275, 1453859012, 1931510905, 143270364, 183525510, 639542457,
      1925495281, 566110813, 162301765, 1555159699, 1302268953, 2128851630,
      1857846813, 2021023351, 868748126, 808787362, 2043686771, 1283509778,
      292862572, 968555115, 1738414954, 908734086, 1760428991, 1979057247,
      1871583450, 863468729, 697586458, 870260438
    >>,
    <<
      512374824, 1321921832, 681068309, 1744573916, 1669028932, 1838667509,
      1786594215, 1156747184, 1878417052, 1410496836, 1601460460, 226398291,
      270432238, 1904598808, 100003468, 1046312054, 130814229, 490488455,
      723401603, 1786978338, 1447573836, 1048922832, 1633031415, 1678099693,
      1344746670, 532302148, 18898326, 1477173219, 335594769, 821369645,
      867039677, 1778895779, 1430604125, 226686935, 101435064, 620731881,
      427606544, 456482446, 324584775, 1860532347, 1107022939, 28479961,
      2141085594, 1471275558, 57577565, 767408189, 44456190, 913086786,
      1204493595, 618701981, 1072666628, 603556780, 864547549, 1356319666,
      1186807810, 709574136, 379579238, 1030491085, 15598258, 1805415187,
      961830194, 1445763341, 1322192469, 1556038077
    >>,
    <<
      908556074, 2011434945, 1412120638, 508658348, 1481616942, 513153209,
      218985961, 1428142714, 1471928719, 447168073, 1828557173, 752686499,
      1450983643, 1601414214, 682211735, 1616241110, 786328967, 1830551806,
      1807036362, 1935819635, 6566964, 473601742, 17922845, 230634042,
      168862583, 704216636, 762523855, 1705960142, 1643306413, 1192202594,
      836419504, 892069515, 2060433712, 653330341, 1317561680, 392693844,
      885071704, 922271464, 1001828787, 814132324, 316910472, 191174175,
      944720164, 347616278, 1873793467, 1533878462, 2079009388, 1743019022,
      1500139118, 2037924874, 1102500439, 1452883958, 104239336, 1015589620,
      1230977436, 847191370, 1455300151, 99649029, 1943359520, 983078263,
      906384450, 1368588891, 2009162683, 1945337845
    >>
   >>
  >>

HASH_SIDE == 1355271697

HASH_EP ==
  <<
    1332771295, 1923141997, 1596270788, 106413106, 434388459, 485826698,
    664752637, 1240354569, 211630274, 1995498897, 442730904, 527021809,
    510559401, 159645875, 1339436463, 638876187, 488025893, 1836154249,
    790458336, 983313914, 2030647865, 599516734, 475598730, 607789377,
    1968260212, 1879392327, 1282165726, 1019336740, 967451217, 1049296519,
    727944960, 948213435, 24038110, 1196441656, 876057246, 825597624,
    1760416651, 1999664221, 1418964311, 903589184, 2078310814, 146213954,
    1578118572, 1396542843, 1932364197, 2080342068, 1863708534, 265406495,
    1705769098, 1731718553, 1471962295, 262415599, 1500388078, 614763390,
    1321181466, 1286548930, 1174755003, 764198915, 1239926784, 1344022859,
    315056381, 1854341236, 2090366578, 827160687
  >>

\* a ^ b on non-negative integers
RECURSIVE Xor(_, _)
Xor(a, b) ==
  IF a = 0 THEN b
  ELSE IF b = 0 THEN a
  ELSE (((a % 2) + (b % 2)) % 2) + 2 * Xor(a \div 2, b \div 2)

\* The XOR of hash_piece over the occupied squares lo..hi (the loop of
\* set_hash, split in halves: XOR is associative and commutative).
RECURSIVE HashSquares(_, _, _, _)
HashSquares(color, piece, lo, hi) ==
  IF lo = hi
    THEN IF color[lo + 1] # EMPTY
           THEN HASH_PIECE[color[lo + 1] + 1][piece[lo + 1] + 1][lo + 1]
           ELSE 0
    ELSE LET mid == (lo + hi) \div 2
         IN  Xor(HashSquares(color, piece, lo, mid), HashSquares(color, piece, mid + 1, hi))

\* set_hash(): the Zobrist hash of the current position
set_hash(d) ==
  LET h0 == HashSquares(d.color, d.piece, 0, 63)
      h1 == IF d.side = DARK THEN Xor(h0, HASH_SIDE) ELSE h0
      h2 == IF d.ep # -1 THEN Xor(h1, HASH_EP[d.ep + 1]) ELSE h1
  IN  [d EXCEPT !.hash = h2]

\* ---------------------------------------------------------- board.rs: attack

\* one direction of the mailbox walk of attack(): from square n, offset off
RECURSIVE RayAttacks(_, _, _, _, _)
RayAttacks(color, p, n, off, sq) ==
  LET m == MAILBOX[MAILBOX64[n + 1] + off + 1]
  IN  IF m = -1 THEN FALSE
      ELSE IF m = sq THEN TRUE
      ELSE IF color[m + 1] # EMPTY THEN FALSE
      ELSE IF ~SLIDE[p + 1] THEN FALSE
      ELSE RayAttacks(color, p, m, off, sq)

\* attack() when it finds no attacker
attack_never(d, sq, s) == FALSE

\* attack(): is square sq attacked by side s
attack(d, sq, s) ==
  \E i \in 0..63 :
    /\ d.color[i + 1] = s
    /\ IF d.piece[i + 1] = PAWN
         THEN IF s = LIGHT
                THEN \/ col(i) # 0 /\ i - 9 = sq
                     \/ col(i) # 7 /\ i - 7 = sq
                ELSE \/ col(i) # 0 /\ i + 7 = sq
                     \/ col(i) # 7 /\ i + 9 = sq
         ELSE \E j \in 1..OFFSETS[d.piece[i + 1] + 1] :
                RayAttacks(d.color, d.piece[i + 1], i, OFFSET[d.piece[i + 1] + 1][j], sq)

\* the squares holding a king of side s
KingSquares(d, s) == {i \in 0..63 : d.piece[i + 1] = KING /\ d.color[i + 1] = s}

\* in_check() panics when side s has no king
in_check_panics(d, s) == KingSquares(d, s) = {}

\* in_check() when it reports no check
in_check_never(d, s) == FALSE

\* in_check(): the first king of side s found is tested with attack()
in_check(d, s) ==
  LET K == KingSquares(d, s)
  IN  /\ K # {}
      /\ attack(d, CHOOSE i \in K : \A j \in K : i <= j, Other(s))

\* ------------------------------------------------------------- board.rs: gen

\* gen_promote(): four entries, one for each promotion piece
gen_promote(d, from, to, bits) ==
  [k \in 1..4 |->
     [m |-> MoveValue(from, to, k, BitOr32(bits)), score |-> 1000000 + (k * 10)]]

\* gen_push(): the entries one call puts on the move stack
gen_push(d, from, to, bits) ==
  IF /\ Bit(bits, 16)
     /\ IF d.side = LIGHT THEN to <= H8 ELSE to >= A1
    THEN gen_promote(d, from, to, bits)
    ELSE << [m |-> MoveValue(from, to, 0, bits),
             score |-> IF d.color[to + 1] # EMPTY
                         THEN 1000000 + d.piece[to + 1] * 10 - d.piece[from + 1]
                         ELSE d.history[from + 1][to + 1]] >>

\* gen(): the moves of the pawn on square i
GenPawn(d, i) ==
  IF d.side = LIGHT
    THEN (IF col(i) # 0 /\ d.color[i - 9 + 1] = DARK THEN gen_push(d, i, i - 9, 17) ELSE <<>>)
         \o (IF col(i) # 7 /\ d.color[i - 7 + 1] = DARK THEN gen_push(d, i, i - 7, 17) ELSE <<>>)
         \o (IF d.color[i - 8 + 1] = EMPTY
               THEN gen_push(d, i, i - 8, 16)
                    \o (IF i >= 48 /\ d.color[i - 16 + 1] = EMPTY
                          THEN gen_push(d, i, i - 16, 24) ELSE <<>>)
               ELSE <<>>)
    ELSE (IF col(i) # 0 /\ d.color[i + 7 + 1] = LIGHT THEN gen_push(d, i, i + 7, 17) ELSE <<>>)
         \o (IF col(i) # 7 /\ d.color[i + 9 + 1] = LIGHT THEN gen_push(d, i, i + 9, 17) ELSE <<>>)
         \o (IF d.color[i + 8 + 1] = EMPTY
               THEN gen_push(d, i, i + 8, 16)
                    \o (IF i <= 15 /\ d.color[i + 16 + 1] = EMPTY
                          THEN gen_push(d, i, i + 16, 24) ELSE <<>>)
               ELSE <<>>)

\* gen(): the moves of the piece on square i along offset off, walking from n
RECURSIVE GenRay(_, _, _, _)
GenRay(d, i, n, off) ==
  LET m == MAILBOX[MAILBOX64[n + 1] + off + 1]
  IN  IF m = -1 THEN <<>>
      ELSE IF d.color[m + 1] # EMPTY
        THEN IF d.color[m + 1] = d.xside THEN gen_push(d, i, m, 1) ELSE <<>>
      ELSE gen_push(d, i, m, 0)
           \o (IF ~SLIDE[d.piece[i + 1] + 1] THEN <<>> ELSE GenRay(d, i, m, off))

\* gen(): the moves of the piece on square i, offsets j..OFFSETS[piece]
RECURSIVE GenPiece(_, _, _)
GenPiece(d, i, j) ==
  IF j > OFFSETS[d.piece[i + 1] + 1] THEN <<>>
  ELSE GenRay(d, i, i, OFFSET[d.piece[i + 1] + 1][j]) \o GenPiece(d, i, j + 1)

\* gen(): the board scan over the squares lo..hi, in square order
RECURSIVE GenBoard(_, _, _)
GenBoard(d, lo, hi) ==
  IF lo = hi
    THEN IF d.color[lo + 1] = d.side
           THEN IF d.piece[lo + 1] = PAWN THEN GenPawn(d, lo) ELSE GenPiece(d, lo, 1)
           ELSE <<>>
    ELSE LET mid == (lo + hi) \div 2
         IN  GenBoard(d, lo, mid) \o GenBoard(d, mid + 1, hi)

\* gen() when it lists no castle move
GenCastle_none(d) == <<>>

\* gen(): the castle moves
GenCastle(d) ==
  IF d.side = LIGHT
    THEN (IF Bit(d.castle, 1) THEN gen_push(d, E1, G1, 2) ELSE <<>>)
         \o (IF Bit(d.castle, 2) THEN gen_push(d, E1, C1, 2) ELSE <<>>)
    ELSE (IF Bit(d.castle, 4) THEN gen_push(d, E8, G8, 2) ELSE <<>>)
         \o (IF Bit(d.castle, 8) THEN gen_push(d, E8, C8, 2) ELSE <<>>)

\* gen() and gen_caps(): the en passant moves
GenEnPassant(d) ==
  IF d.ep = -1 THEN <<>>
  ELSE IF d.side = LIGHT
    THEN (IF col(d.ep) # 0 /\ d.color[d.ep + 7 + 1] = LIGHT /\ d.piece[d.ep + 7 + 1] = PAWN
            THEN gen_push(d, d.ep + 7, d.ep, 21) ELSE <<>>)
         \o (IF col(d.ep) # 7 /\ d.color[d.ep + 9 + 1] = LIGHT /\ d.piece[d.ep + 9 + 1] = PAWN
               THEN gen_push(d, d.ep + 9, d.ep, 21) ELSE <<>>)
    ELSE (IF col(d.ep) # 0 /\ d.color[d.ep - 9 + 1] = DARK /\ d.piece[d.ep - 9 + 1] = PAWN
            THEN gen_push(d, d.ep - 9, d.ep, 21) ELSE <<>>)
         \o (IF col(d.ep) # 7 /\ d.color[d.ep - 7 + 1] = DARK /\ d.piece[d.ep - 7 + 1] = PAWN
               THEN gen_push(d, d.ep - 7, d.ep, 21) ELSE <<>>)

\* The move stack after a generator has put the list new on it at the current
\* ply: entries below first_move[ply] stay, entries above the new list keep
\* what was there.
PutMoves(d, new) ==
  LET base == d.first_move[d.ply + 1]
  IN  [d EXCEPT !.gen_dat = SubSeq(d.gen_dat, 1, base) \o new
                             \o SubSeq(d.gen_dat, base + Len(new) + 1, Len(d.gen_dat)),
                !.first_move[d.ply + 2] = base + Len(new)]

\* gen(): the pseudo-legal moves of the current position
gen(d) == PutMoves(d, GenBoard(d, 0, 63) \o GenCastle(d) \o GenEnPassant(d))

\* gen_caps(): the moves of the pawn on square i (captures and promotions)
GenCapsPawn(d, i) ==
  IF d.side = LIGHT
    THEN (IF col(i) # 0 /\ d.color[i - 9 + 1] = DARK THEN gen_push(d, i, i - 9, 17) ELSE <<>>)
         \o (IF col(i) # 7 /\ d.color[i - 7 + 1] = DARK THEN gen_push(d, i, i - 7, 17) ELSE <<>>)
         \o (IF i <= 15 /\ d.color[i - 8 + 1] = EMPTY THEN gen_push(d, i, i - 8, 16) ELSE <<>>)
    ELSE (IF col(i) # 0 /\ d.color[i + 7 + 1] = LIGHT THEN gen_push(d, i, i + 7, 17) ELSE <<>>)
         \o (IF col(i) # 7 /\ d.color[i + 9 + 1] = LIGHT THEN gen_push(d, i, i + 9, 17) ELSE <<>>)
         \o (IF i >= 48 /\ d.color[i + 8 + 1] = EMPTY THEN gen_push(d, i, i + 8, 16) ELSE <<>>)

\* gen_caps(): the captures of the piece on square i along offset off
RECURSIVE GenCapsRay(_, _, _, _)
GenCapsRay(d, i, n, off) ==
  LET m == MAILBOX[MAILBOX64[n + 1] + off + 1]
  IN  IF m = -1 THEN <<>>
      ELSE IF d.color[m + 1] # EMPTY
        THEN IF d.color[m + 1] = d.xside THEN gen_push(d, i, m, 1) ELSE <<>>
      ELSE IF ~SLIDE[d.piece[i + 1] + 1] THEN <<>>
      ELSE GenCapsRay(d, i, m, off)

RECURSIVE GenCapsPiece(_, _, _)
GenCapsPiece(d, i, j) ==
  IF j > OFFSETS[d.piece[i + 1] + 1] THEN <<>>
  ELSE GenCapsRay(d, i, i, OFFSET[d.piece[i + 1] + 1][j]) \o GenCapsPiece(d, i, j + 1)

\* gen_caps(): the board scan over the squares lo..hi, in square order
RECURSIVE GenCapsBoard(_, _, _)
GenCapsBoard(d, lo, hi) ==
  IF lo = hi
    THEN IF d.color[lo + 1] = d.side
           THEN IF d.piece[lo + 1] = PAWN THEN GenCapsPawn(d, lo) ELSE GenCapsPiece(d, lo, 1)
           ELSE <<>>
    ELSE LET mid == (lo + hi) \div 2
         IN  GenCapsBoard(d, lo, mid) \o GenCapsBoard(d, mid + 1, hi)

\* gen_caps(): the capture and promotion moves of the current position
gen_caps(d) == PutMoves(d, GenCapsBoard(d, 0, 63) \o GenEnPassant(d))

\* ------------------------------------------------- board.rs: makemove, takeback

\* x -= 1 on a usize: at 0 a debug build panics and a release build wraps to
\* usize::MAX, which the model writes as -1
UsizeDec(x) == x - 1

\* hist_dat with entry e stored at index k
PutHist(h, k, e) == IF k + 1 <= Len(h) THEN [h EXCEPT ![k + 1] = e] ELSE Append(h, e)

\* takeback() panics: the history stack is empty, or the move taken back is
\* a castle move to an unknown square
takeback_panics(d) ==
  \/ d.hply = 0
  \/ LET m == bytes(d.hist_dat[d.hply].m)
     IN  Bit(m.bits, 2) /\ m.to \notin {G1, C1, G8, C8}

\* takeback(): undo the move on top of the history stack
takeback(d) ==
  LET side == Other(d.side)
      xside == Other(d.xside)
      hply == UsizeDec(d.hply)
      h == d.hist_dat[hply + 1]
      m == bytes(h.m)
      \* the moved piece goes back, the captured piece reappears
      color1 == [d.color EXCEPT ![m.from + 1] = side,
                                ![m.to + 1] = IF h.capture = EMPTY THEN EMPTY ELSE xside]
      piece1 == [d.piece EXCEPT ![m.from + 1] = IF Bit(m.bits, 32) THEN PAWN
                                                ELSE d.piece[m.to + 1],
                                ![m.to + 1] = IF h.capture = EMPTY THEN EMPTY ELSE h.capture]
      \* the castle rook goes back
      rfrom == CASE m.to = G1 -> F1 [] m.to = C1 -> D1 [] m.to = G8 -> F8 [] OTHER -> D8
      rto == CASE m.to = G1 -> H1 [] m.to = C1 -> A1 [] m.to = G8 -> H8 [] OTHER -> A8
      color2 == IF Bit(m.bits, 2)
                  THEN [color1 EXCEPT ![rto + 1] = side, ![rfrom + 1] = EMPTY]
                  ELSE color1
      piece2 == IF Bit(m.bits, 2)
                  THEN [piece1 EXCEPT ![rto + 1] = ROOK, ![rfrom + 1] = EMPTY]
                  ELSE piece1
      \* the pawn captured en passant reappears
      pawn_sq == IF side = LIGHT THEN m.to + 8 ELSE m.to - 8
      color3 == IF Bit(m.bits, 4) THEN [color2 EXCEPT ![pawn_sq + 1] = xside] ELSE color2
      piece3 == IF Bit(m.bits, 4) THEN [piece2 EXCEPT ![pawn_sq + 1] = PAWN] ELSE piece2
  IN  [d EXCEPT !.side = side, !.xside = xside,
                !.ply = UsizeDec(d.ply), !.hply = hply,
                !.castle = h.castle, !.ep = h.ep, !.fifty = h.fifty, !.hash = h.hash,
                !.color = color3, !.piece = piece3]

\* CastleRefused when only the squares between king and rook are looked at
CastleRefused_occupied(d, to) ==
  CASE to = 62 -> d.color[F1 + 1] # EMPTY \/ d.color[G1 + 1] # EMPTY
    [] to = 58 -> d.color[B1 + 1] # EMPTY \/ d.color[C1 + 1] # EMPTY \/ d.color[D1 + 1] # EMPTY
    [] to = 6 -> d.color[F8 + 1] # EMPTY \/ d.color[G8 + 1] # EMPTY
    [] to = 2 -> d.color[B8 + 1] # EMPTY \/ d.color[C8 + 1] # EMPTY \/ d.color[D8 + 1] # EMPTY
    [] OTHER -> FALSE

\* makemove(): the castle move to square to is refused
CastleRefused(d, to) ==
  CASE to = 62 -> \/ d.color[F1 + 1] # EMPTY \/ d.color[G1 + 1] # EMPTY
                  \/ attack(d, F1, d.xside) \/ attack(d, G1, d.xside)
    [] to = 58 -> \/ d.color[B1 + 1] # EMPTY \/ d.color[C1 + 1] # EMPTY
                  \/ d.color[D1 + 1] # EMPTY
                  \/ attack(d, C1, d.xside) \/ attack(d, D1, d.xside)
    [] to = 6 -> \/ d.color[F8 + 1] # EMPTY \/ d.color[G8 + 1] # EMPTY
                 \/ attack(d, F8, d.xside) \/ attack(d, G8, d.xside)
    [] to = 2 -> \/ d.color[B8 + 1] # EMPTY \/ d.color[C8 + 1] # EMPTY
                 \/ d.color[D8 + 1] # EMPTY
                 \/ attack(d, C8, d.xside) \/ attack(d, D8, d.xside)
    [] OTHER -> FALSE

\* makemove() when the entry it backs up loses the fifty-move counter
Backup_no_fifty(d, mv, capture) ==
  [m |-> mv, capture |-> capture, castle |-> d.castle, ep |-> d.ep, fifty |-> 0,
   hash |-> d.hash]

\* makemove() when the entry it backs up does not keep the hash
Backup_no_hash(d, mv, capture) ==
  [m |-> mv, capture |-> capture, castle |-> d.castle, ep |-> d.ep, fifty |-> d.fifty,
   hash |-> 0]

\* makemove() when the entry it backs up counts the move being made
Backup_fifty_ahead(d, mv, capture) ==
  [m |-> mv, capture |-> capture, castle |-> d.castle, ep |-> d.ep, fifty |-> d.fifty + 1,
   hash |-> d.hash]

\* makemove(): the hist_dat entry that lets takeback() undo the move
Backup(d, mv, capture) ==
  [m |-> mv, capture |-> capture, castle |-> d.castle, ep |-> d.ep, fifty |-> d.fifty,
   hash |-> d.hash]

\* EnPassantSquare when ep is left as it is by a move that is no double push
EnPassantSquare_kept(d, m) ==
  IF Bit(m.bits, 8)
    THEN IF d.side = LIGHT THEN m.to + 8 ELSE m.to - 8
    ELSE d.ep

\* makemove(): ep after move m, the square behind a pawn pushed two squares
EnPassantSquare(d, m) ==
  IF Bit(m.bits, 8)
    THEN IF d.side = LIGHT THEN m.to + 8 ELSE m.to - 8
    ELSE -1

\* makemove(): the changes up to the switch of sides, before the legality test
MoveApplied(d, mv) ==
  LET m == bytes(mv)
      \* the castle rook moves first
      rfrom == CASE m.to = 62 -> H1 [] m.to = 58 -> A1 [] m.to = 6 -> H8 [] OTHER -> A8
      rto == CASE m.to = 62 -> F1 [] m.to = 58 -> D1 [] m.to = 6 -> F8 [] OTHER -> D8
      color1 == IF Bit(m.bits, 2)
                  THEN [d.color EXCEPT ![rto + 1] = d.color[rfrom + 1], ![rfrom + 1] = EMPTY]
                  ELSE d.color
      piece1 == IF Bit(m.bits, 2)
                  THEN [d.piece EXCEPT ![rto + 1] = d.piece[rfrom + 1], ![rfrom + 1] = EMPTY]
                  ELSE d.piece
      \* back up information so the move can be taken back
      hist == Backup(d, mv, piece1[m.to + 1])
      \* move the piece
      color2 == [color1 EXCEPT ![m.to + 1] = d.side, ![m.from + 1] = EMPTY]
      piece2 == [piece1 EXCEPT ![m.to + 1] = IF Bit(m.bits, 32) THEN m.promote
                                             ELSE piece1[m.from + 1],
                               ![m.from + 1] = EMPTY]
      \* erase the pawn if this is an en passant move
      pawn_sq == IF d.side = LIGHT THEN m.to + 8 ELSE m.to - 8
      color3 == IF Bit(m.bits, 4) THEN [color2 EXCEPT ![pawn_sq + 1] = EMPTY] ELSE color2
      piece3 == IF Bit(m.bits, 4) THEN [piece2 EXCEPT ![pawn_sq + 1] = EMPTY] ELSE piece2
  IN  [d EXCEPT !.hist_dat = PutHist(d.hist_dat, d.hply, hist),
                !.ply = d.ply + 1, !.hply = d.hply + 1,
                !.castle = BitAnd4(d.castle,
                                   BitAnd4(CASTLE_MASK[m.from + 1], CASTLE_MASK[m.to + 1])),
                !.ep = EnPassantSquare(d, m),
                !.fifty = IF Bit(m.bits, 1) \/ Bit(m.bits, 16) THEN 0 ELSE d.fifty + 1,
                !.color = color3, !.piece = piece3,
                !.side = Other(d.side), !.xside = Other(d.xside)]

\* makemove() panics: a king is missing, the castle square is unknown, or the
\* history stack is full
makemove_panics(d, mv) ==
  LET m == bytes(mv)
  IN  IF Bit(m.bits, 2) /\ in_check_panics(d, d.side) THEN TRUE
      ELSE IF Bit(m.bits, 2) /\ (in_check(d, d.side) \/ CastleRefused(d, m.to)) THEN FALSE
      ELSE \/ Bit(m.bits, 2) /\ m.to \notin {62, 58, 6, 2}
           \/ d.hply >= HIST_STACK
           \/ in_check_panics(MoveApplied(d, mv), MoveApplied(d, mv).xside)

\* makemove() when a move that leaves the king attacked is not taken back
makemove_no_rollback(d, mv) ==
  LET m == bytes(mv)
  IN  IF Bit(m.bits, 2) /\ (in_check(d, d.side) \/ CastleRefused(d, m.to))
        THEN [ok |-> FALSE, d |-> d]
      ELSE LET d1 == MoveApplied(d, mv)
           IN  IF in_check(d1, d1.xside)
                 THEN [ok |-> FALSE, d |-> d1]
                 ELSE [ok |-> TRUE, d |-> set_hash(d1)]

\* makemove(): [ok |-> the value returned, d |-> the data afterwards]
makemove(d, mv) ==
  LET m == bytes(mv)
  IN  IF Bit(m.bits, 2) /\ (in_check(d, d.side) \/ CastleRefused(d, m.to))
        THEN [ok |-> FALSE, d |-> d]
      ELSE LET d1 == MoveApplied(d, mv)
           IN  IF in_check(d1, d1.xside)
                 THEN [ok |-> FALSE, d |-> takeback(d1)]
                 ELSE [ok |-> TRUE, d |-> set_hash(d1)]

\* init_board(): the initial game state
init_board(d) ==
  set_hash([d EXCEPT !.color = INIT_COLOR, !.piece = INIT_PIECE,
                     !.side = LIGHT, !.xside = DARK, !.castle = 15, !.ep = -1,
                     !.fifty = 0, !.ply = 0, !.hply = 0, !.first_move[1] = 0])

\* Data::new() followed by init_hash()
NewData ==
  [color |-> INIT_COLOR, piece |-> INIT_PIECE, side |-> LIGHT, xside |-> DARK,
   castle |-> 15, ep |-> -1, fifty |-> 0, hash |-> 0, ply |-> 0, hply |-> 0,
   gen_dat |-> <<>>, first_move |-> [k \in 1..MAX_PLY |-> 0],
   history |-> [f \in 1..64 |-> [t \in 1..64 |-> 0]],
   hist_dat |-> <<>>,
   max_time |-> 0, max_depth |-> 0, start_time |-> 0, stop_time |-> 0, nodes |-> 0,
   pv |-> [p \in 1..MAX_PLY |-> [j \in 1..MAX_PLY |-> 0]],
   pv_length |-> [k \in 1..MAX_PLY |-> 0], follow_pv |-> FALSE,
   book_lines |-> <<>>]

\* ------------------------------------------------------------------- state

\* ---------------------------------------------------------------- eval.rs

DOUBLED_PAWN_PENALTY == 10
ISOLATED_PAWN_PENALTY == 20
BACKWARDS_PAWN_PENALTY == 8
PASSED_PAWN_BONUS == 20
ROOK_SEMI_OPEN_FILE_BONUS == 10
ROOK_OPEN_FILE_BONUS == 15
ROOK_ON_SEVENTH_BONUS == 20

\* the values of the pieces
PIECE_VALUE == <<100, 300, 300, 500, 900, 0>>

\* the piece/square tables, and FLIP, which mirrors a square for DARK
PAWN_PCSQ ==
  <<
      0,   0,   0,   0,   0,   0,   0,   0,
      5,  10,  15,  20,  20,  15,  10,   5,
      4,   8,  12,  16,  16,  12,   8,   4,
      3,   6,   9,  12,  12,   9,   6,   3,
      2,   4,   6,   8,   8,   6,   4,   2,
      1,   2,   3, -10, -10,   3,   2,   1,
      0,   0,   0, -40, -40,   0,   0,   0,
      0,   0,   0,   0,   0,   0,   0,   0
  >>

KNIGHT_PCSQ ==
  <<
    -10, -10, -10, -10, -10, -10, -10, -10,
    -10,   0,   0,   0,   0,   0,   0, -10,
    -10,   0,   5,   5,   5,   5,   0, -10,
    -10,   0,   5,  10,  10,   5,   0, -10,
    -10,   0,   5,  10,  10,   5,   0, -10,
    -10,   0,   5,   5,   5,   5,   0, -10,
    -10,   0,   0,   0,   0,   0,   0, -10,
    -10, -30, -10, -10, -10, -10, -30, -10
  >>

BISHOP_PCSQ ==
  <<
    -10, -10, -10, -10, -10, -10, -10, -10,
    -10,   0,   0,   0,   0,   0,   0, -10,
    -10,   0,   5,   5,   5,   5,   0, -10,
    -10,   0,   5,  10,  10,   5,   0, -10,
    -10,   0,   5,  10,  10,   5,   0, -10,
    -10,   0,   5,   5,   5,   5,   0, -10,
    -10,   0,   0,   0,   0,   0,   0, -10,
    -10, -10, -20, -10, -10, -20, -10, -10
  >>

KING_PCSQ ==
  <<
    -40, -40, -40, -40, -40, -40, -40, -40,
    -40, -40, -40, -40, -40, -40, -40, -40,
    -40, -40, -40, -40, -40, -40, -40, -40,
    -40, -40, -40, -40, -40, -40, -40, -40,
    -40, -40, -40, -40, -40, -40, -40, -40,
    -40, -40, -40, -40, -40, -40, -40, -40,
    -20, -20, -20, -20, -20, -20, -20, -20,
      0,  20,  40, -20,   0, -20,  40,  20
  >>

KING_ENDGAME_PCSQ ==
  <<
      0,  10,  20,  30,  30,  20,  10,   0,
     10,  20,  30,  40,  40,  30,  20,  10,
     20,  30,  40,  50,  50,  40,  30,  20,
     30,  40,  50,  60,  60,  50,  40,  30,
     30,  40,  50,  60,  60,  50,  40,  30,
     20,  30,  40,  50,  50,  40,  30,  20,
     10,  20,  30,  40,  40,  30,  20,  10,
      0,  10,  20,  30,  30,  20,  10,   0
  >>

FLIP ==
  <<
     56,  57,  58,  59,  60,  61,  62,  63,
     48,  49,  50,  51,  52,  53,  54,  55,
     40,  41,  42,  43,  44,  45,  46,  47,
     32,  33,  34,  35,  36,  37,  38,  39,
     24,  25,  26,  27,  28,  29,  30,  31,
     16,  17,  18,  19,  20,  21,  22,  23,
      8,   9,  10,  11,  12,  13,  14,  15,
      0,   1,   2,   3,   4,   5,   6,   7
  >>

\* the largest and the smallest number of a non-empty set of numbers
Max(S) == CHOOSE x \in S : \A y \in S : y <= x
Min(S) == CHOOSE x \in S : \A y \in S : x <= y

\* the squares that hold piece p of color c
SquaresOf(d, c, p) == {i \in 0..63 : d.color[i + 1] = c /\ d.piece[i + 1] = p}

\* eval(), first pass: pawn_rank[c][f], the rank of the least advanced pawn of
\* color c on file f - 1 (0 for LIGHT and 7 for DARK when there is none)
pawn_rank(d) ==
  LET rows(c, f) == {row(i) : i \in {k \in SquaresOf(d, c, PAWN) : col(k) + 1 = f}}
  IN  << [f \in 1..10 |-> Max({0} \cup rows(LIGHT, f - 1))],
         [f \in 1..10 |-> Min({7} \cup rows(DARK, f - 1))] >>

\* eval(), first pass: piece_mat[c], the value of the pieces of color c
piece_mat(d) ==
  [c \in 1..2 |->
     Cardinality(SquaresOf(d, c - 1, KNIGHT)) * PIECE_VALUE[KNIGHT + 1]
     + Cardinality(SquaresOf(d, c - 1, BISHOP)) * PIECE_VALUE[BISHOP + 1]
     + Cardinality(SquaresOf(d, c - 1, ROOK)) * PIECE_VALUE[ROOK + 1]
     + Cardinality(SquaresOf(d, c - 1, QUEEN)) * PIECE_VALUE[QUEEN + 1]
     + Cardinality(SquaresOf(d, c - 1, KING)) * PIECE_VALUE[KING + 1]]

\* eval(), first pass: pawn_mat[c], the value of the pawns of color c
pawn_mat(d) ==
  [c \in 1..2 |-> Cardinality(SquaresOf(d, c - 1, PAWN)) * PIECE_VALUE[PAWN + 1]]

eval_light_pawn(pr, sq) ==
  LET f == col(sq) + 1
      r == row(sq)
      L == pr[LIGHT + 1]
      K == pr[DARK + 1]
  IN  PAWN_PCSQ[sq + 1]
      \* a pawn behind this one: doubled
      - (IF L[f + 1] > r THEN DOUBLED_PAWN_PENALTY ELSE 0)
      \* no friendly pawn on either side: isolated; otherwise maybe backwards
      - (IF L[f] = 0 /\ L[f + 2] = 0 THEN ISOLATED_PAWN_PENALTY
         ELSE IF L[f] < r /\ L[f + 2] < r THEN BACKWARDS_PAWN_PENALTY
         ELSE 0)
      \* passed
      + (IF K[f] >= r /\ K[f + 1] >= r /\ K[f + 2] >= r
           THEN (7 - r) * PASSED_PAWN_BONUS ELSE 0)

eval_dark_pawn(pr, sq) ==
  LET f == col(sq) + 1
      r == row(sq)
      L == pr[LIGHT + 1]
      K == pr[DARK + 1]
  IN  PAWN_PCSQ[FLIP[sq + 1] + 1]
      - (IF K[f + 1] < r THEN DOUBLED_PAWN_PENALTY ELSE 0)
      - (IF K[f] = 7 /\ K[f + 2] = 7 THEN ISOLATED_PAWN_PENALTY
         ELSE IF K[f] > r /\ K[f + 2] > r THEN BACKWARDS_PAWN_PENALTY
         ELSE 0)
      + (IF L[f] <= r /\ L[f + 1] <= r /\ L[f + 2] < r
           THEN r * PASSED_PAWN_BONUS ELSE 0)

\* eval_lkp(f): the Light King Pawn on file f
eval_lkp(pr, f) ==
  LET rank_light == pr[LIGHT + 1][f + 1]
      rank_dark == pr[DARK + 1][f + 1]
  IN  (IF rank_light = 6 THEN 0
       ELSE IF rank_light = 5 THEN -10
       ELSE IF rank_light # 0 THEN -20
       ELSE -25)
      + (IF rank_dark = 7 THEN -15
         ELSE IF rank_dark = 5 THEN -10
         ELSE IF rank_dark = 4 THEN -5
         ELSE 0)

\* eval_dkp(f): the Dark King Pawn on file f
eval_dkp(pr, f) ==
  LET rank_light == pr[LIGHT + 1][f + 1]
      rank_dark == pr[DARK + 1][f + 1]
  IN  (IF rank_dark = 1 THEN 0
       ELSE IF rank_dark = 2 THEN -10
       ELSE IF rank_dark # 7 THEN -20
       ELSE -25)
      + (IF rank_light = 0 THEN -15
         ELSE IF rank_light = 2 THEN -10
         ELSE IF rank_light = 3 THEN -5
         ELSE 0)

\* the penalty for the open files col .. col + 2 of pawn_rank near a king
OpenFilesNearKing(pr, c) ==
  -10 * Cardinality({i \in c .. c + 2 : pr[LIGHT + 1][i + 1] = 0 /\ pr[DARK + 1][i + 1] = 7})

eval_light_king(pr, pm, sq) ==
  LET c == col(sq)
      r == KING_PCSQ[sq + 1]
           + (IF c < 3
                THEN eval_lkp(pr, 1) + eval_lkp(pr, 2) + TruncDiv(eval_lkp(pr, 3), 2)
              ELSE IF c > 4
                THEN eval_lkp(pr, 8) + eval_lkp(pr, 7) + TruncDiv(eval_lkp(pr, 6), 2)
              ELSE OpenFilesNearKing(pr, c))
  \* scaled by the material of the other side
  IN  TruncDiv(r * pm[DARK + 1], 3100)

eval_dark_king(pr, pm, sq) ==
  LET c == col(sq)
      r == KING_PCSQ[FLIP[sq + 1] + 1]
           + (IF c < 3
                THEN eval_dkp(pr, 1) + eval_dkp(pr, 2) + TruncDiv(eval_dkp(pr, 3), 2)
              ELSE IF c > 4
                THEN eval_dkp(pr, 8) + eval_dkp(pr, 7) + TruncDiv(eval_dkp(pr, 6), 2)
              ELSE OpenFilesNearKing(pr, c))
  IN  TruncDiv(r * pm[LIGHT + 1], 3100)

\* eval(), second pass: what the piece on square i does to score[LIGHT]: it
\* adds v, or (a rook on a file without a light pawn) it sets the score to v
LightPiece(d, pr, pm, i) ==
  LET p == d.piece[i + 1]
      seventh == IF row(i) = 1 THEN ROOK_ON_SEVENTH_BONUS ELSE 0
  IN  IF d.color[i + 1] # LIGHT THEN [set |-> FALSE, v |-> 0]
      ELSE IF p = PAWN THEN [set |-> FALSE, v |-> eval_light_pawn(pr, i)]
      ELSE IF p = KNIGHT THEN [set |-> FALSE, v |-> KNIGHT_PCSQ[i + 1]]
      ELSE IF p = BISHOP THEN [set |-> FALSE, v |-> BISHOP_PCSQ[i + 1]]
      ELSE IF p = ROOK THEN
        IF pr[LIGHT + 1][col(i) + 2] = 0
          THEN [set |-> TRUE,
                v |-> (IF pr[DARK + 1][col(i) + 2] = 7 THEN ROOK_OPEN_FILE_BONUS
                       ELSE ROOK_SEMI_OPEN_FILE_BONUS) + seventh]
          ELSE [set |-> FALSE, v |-> seventh]
      ELSE IF p = KING THEN
        [set |-> FALSE,
         v |-> IF pm[DARK + 1] <= 1200 THEN KING_ENDGAME_PCSQ[i + 1]
               ELSE eval_light_king(pr, pm, i)]
      ELSE [set |-> FALSE, v |-> 0]

\* eval(), second pass: what the pieces on the squares lo..hi, taken in square
\* order, do to score[LIGHT]
RECURSIVE LightPieces(_, _, _, _, _)
LightPieces(d, pr, pm, lo, hi) ==
  IF lo = hi THEN LightPiece(d, pr, pm, lo)
  ELSE LET mid == (lo + hi) \div 2
           a == LightPieces(d, pr, pm, lo, mid)
           b == LightPieces(d, pr, pm, mid + 1, hi)
       IN  IF b.set THEN b ELSE [set |-> a.set, v |-> a.v + b.v]

\* eval(), second pass: what the piece on square i adds to score[DARK]
DarkPiece(d, pr, pm, i) ==
  LET p == d.piece[i + 1]
  IN  IF d.color[i + 1] # DARK THEN 0
      ELSE IF p = PAWN THEN eval_dark_pawn(pr, i)
      ELSE IF p = KNIGHT THEN KNIGHT_PCSQ[FLIP[i + 1] + 1]
      ELSE IF p = BISHOP THEN BISHOP_PCSQ[FLIP[i + 1] + 1]
      ELSE IF p = ROOK THEN
        (IF pr[DARK + 1][col(i) + 2] = 7 /\ pr[LIGHT + 1][col(i) + 2] = 0
           THEN ROOK_OPEN_FILE_BONUS ELSE 0)
        + (IF row(i) = 6 THEN ROOK_ON_SEVENTH_BONUS ELSE 0)
      ELSE IF p = KING THEN
        IF pm[LIGHT + 1] <= 1200 THEN KING_ENDGAME_PCSQ[FLIP[i + 1] + 1]
        ELSE eval_dark_king(pr, pm, i)
      ELSE 0

\* eval(), second pass: what the pieces on the squares lo..hi add to score[DARK]
RECURSIVE DarkPieces(_, _, _, _, _)
DarkPieces(d, pr, pm, lo, hi) ==
  IF lo = hi THEN DarkPiece(d, pr, pm, lo)
  ELSE LET mid == (lo + hi) \div 2
       IN  DarkPieces(d, pr, pm, lo, mid) + DarkPieces(d, pr, pm, mid + 1, hi)

\* eval(): score[LIGHT] and score[DARK]
score(d) ==
  LET pr == pawn_rank(d)
      pm == piece_mat(d)
      wm == pawn_mat(d)
      light == LightPieces(d, pr, pm, 0, 63)
  IN  << IF light.set THEN light.v ELSE pm[LIGHT + 1] + wm[LIGHT + 1] + light.v,
         pm[DARK + 1] + wm[DARK + 1] + DarkPieces(d, pr, pm, 0, 63) >>

\* eval() when the score is White's whatever the side to move
eval_for_light(d) == score(d)[LIGHT + 1] - score(d)[DARK + 1]

\* eval(): the score of the position for the side to move
eval(d) ==
  IF d.side = LIGHT THEN score(d)[LIGHT + 1] - score(d)[DARK + 1]
  ELSE score(d)[DARK + 1] - score(d)[LIGHT + 1]


\* ------------------------------------------------- util.rs: moves as text

\* Text is a sequence of character codes.
SPACE == 32

\* the characters of the decimal digit n and of the file letter of column c
Digit(n) == 48 + n
FileLetter(c) == 97 + c

\* move_str() when the promotion piece is left out
move_str_no_letter(m) ==
  << FileLetter(col(m.from)), Digit(8 - row(m.from)),
     FileLetter(col(m.to)), Digit(8 - row(m.to)) >>

\* move_str(): move m in coordinate notation
move_str(m) ==
  LET coords == << FileLetter(col(m.from)), Digit(8 - row(m.from)),
                   FileLetter(col(m.to)), Digit(8 - row(m.to)) >>
  IN  IF Bit(m.bits, 32)
        THEN Append(coords, CASE m.promote = KNIGHT -> 110
                              [] m.promote = BISHOP -> 98
                              [] m.promote = ROOK -> 114
                              [] OTHER -> 113)
        ELSE coords

\* parse_move(): the index in gen_dat of the move written in s, or -1
parse_move(d, s) ==
  IF \/ Len(s) < 4
     \/ s[1] < 97 \/ s[1] > 104 \/ s[2] < 48 \/ s[2] > 57
     \/ s[3] < 97 \/ s[3] > 104 \/ s[4] < 48 \/ s[4] > 57
    THEN -1
  ELSE
    LET from == ((s[1] - 97) + 8 * (8 - (s[2] - 48))) % 256
        to == ((s[3] - 97) + 8 * (8 - (s[4] - 48))) % 256
        found == {i \in 0 .. d.first_move[2] - 1 :
                    bytes(d.gen_dat[i + 1].m).from = from /\ bytes(d.gen_dat[i + 1].m).to = to}
    IN  IF found = {} THEN -1
        ELSE LET i == CHOOSE x \in found : \A y \in found : x <= y
             IN  IF Bit(bytes(d.gen_dat[i + 1].m).bits, 32)
                   THEN IF Len(s) < 5 THEN i + 3
                        ELSE CASE s[5] \in {78, 110} -> i
                               [] s[5] \in {66, 98} -> i + 1
                               [] s[5] \in {82, 114} -> i + 2
                               [] OTHER -> i + 3
                   ELSE i

\* ---------------------------------------------------------------- book.rs

\* book_move(): the moves played so far, each followed by a space: the text
\* of hist_dat[0 .. hply) from entry k on
RECURSIVE GameLine(_, _, _)
GameLine(d, lo, hi) ==
  IF lo > hi THEN <<>>
  ELSE IF lo = hi THEN Append(move_str(bytes(d.hist_dat[lo + 1].m)), SPACE)
  ELSE LET mid == (lo + hi) \div 2
       IN  GameLine(d, lo, mid) \o GameLine(d, mid + 1, hi)

\* str::starts_with()
starts_with(s, prefix) ==
  /\ Len(prefix) <= Len(s)
  /\ SubSeq(s, 1, Len(prefix)) = prefix

\* book_move(): for each book line, in order, the move that continues the
\* game, or -1 when the line does not match or its next move does not parse
BookMatches(d) ==
  LET line == GameLine(d, 0, d.hply - 1)
  IN  [k \in 1 .. Len(d.book_lines) |->
         IF starts_with(d.book_lines[k], line)
           THEN LET i == parse_move(d, SubSeq(d.book_lines[k], Len(line) + 1,
                                               Len(d.book_lines[k])))
                IN  IF i = -1 THEN -1 ELSE d.gen_dat[i + 1].m
           ELSE -1]

\* book_move(): the book move (as a number) when rand() % total_count is j,
\* or -1 when there is none: the j-th matching line's move, the lines being
\* grouped by move in the order the moves first occur
book_move(d, j) ==
  IF d.hply > 25 \/ Len(d.book_lines) = 0 THEN -1
  ELSE
    LET found == BookMatches(d)
        hits == {k \in DOMAIN found : found[k] # -1}
        \* the line on which the move of line k first occurs
        first(k) == CHOOSE q \in hits :
                      /\ found[q] = found[k]
                      /\ \A p \in hits : found[p] = found[k] => q <= p
        \* the lines counted before the move of line k is passed over
        upto(k) == Cardinality({p \in hits : first(p) <= first(k)})
        picks == {k \in hits : upto(k) > j}
    IN  IF hits = {} \/ picks = {} THEN -1
        ELSE found[CHOOSE k \in picks : \A p \in picks : first(k) <= first(p)]

\* book_move(): the number of book lines that continue the game
BookCount(d) ==
  IF d.hply > 25 \/ Len(d.book_lines) = 0 THEN 0
  ELSE Cardinality({k \in DOMAIN BookMatches(d) : BookMatches(d)[k] # -1})

\* -------------------------------------------------------------- search.rs

\* reps(): how many earlier positions since the last irreversible move have
\* the hash of the current one
reps(d) ==
  Cardinality({i \in d.hply - d.fifty .. d.hply - 1 : d.hist_dat[i + 1].hash = d.hash})

\* sort_pv(): the first move of the current ply's list that is the PV move
\* gets 10,000,000 added to its score; follow_pv tells whether there was one
sort_pv(d) ==
  LET found == {i \in d.first_move[d.ply + 1] .. d.first_move[d.ply + 2] - 1 :
                  d.gen_dat[i + 1].m = d.pv[1][d.ply + 1]}
  IN  IF found = {} THEN [d EXCEPT !.follow_pv = FALSE]
      ELSE LET i == CHOOSE x \in found : \A y \in found : x <= y
           IN  [d EXCEPT !.follow_pv = TRUE,
                         !.gen_dat[i + 1].score = d.gen_dat[i + 1].score + 10000000]

\* sort() when it leaves the list as it is
sort_none(d, from) == d

\* sort(): the first of the highest-scored moves from index from on changes
\* places with the move at from
sort(d, from) ==
  LET range == from .. d.first_move[d.ply + 2] - 1
      better == {i \in range : d.gen_dat[i + 1].score > -1}
      bi == IF better = {} THEN from
            ELSE CHOOSE i \in better :
                   \A k \in better :
                     \/ d.gen_dat[k + 1].score < d.gen_dat[i + 1].score
                     \/ d.gen_dat[k + 1].score = d.gen_dat[i + 1].score /\ i <= k
  IN  [d EXCEPT !.gen_dat[from + 1] = d.gen_dat[bi + 1],
                !.gen_dat[bi + 1] = d.gen_dat[from + 1]]

\* checkup(): false when the clock, read as t, has reached stop_time
checkup(d, t) == ~(t >= d.stop_time)

\* search() and quiesce(): this is a node at which the clock is looked at
Housekeeping(nodes) == nodes % 1024 = 0

\* UpdatePV() when the line is written to pv[0] whatever the ply
UpdatePV_root(d, m) ==
  [d EXCEPT !.pv[1] =
              [j \in 1..MAX_PLY |->
                 IF j = d.ply + 1 THEN m
                 ELSE IF j > d.ply + 1 /\ j <= d.pv_length[d.ply + 2]
                   THEN d.pv[d.ply + 2][j]
                 ELSE d.pv[1][j]],
            !.pv_length[d.ply + 1] = d.pv_length[d.ply + 2]]

\* UpdatePV when the line of the next ply is not copied: move m, and the
\* length of the line below it
UpdatePV_no_copy(d, m) ==
  [d EXCEPT !.pv[d.ply + 1][d.ply + 1] = m,
            !.pv_length[d.ply + 1] = d.pv_length[d.ply + 2]]

\* search() and quiesce(): the PV of the current ply becomes move m followed
\* by the PV of the next ply
UpdatePV(d, m) ==
  [d EXCEPT !.pv[d.ply + 1] =
              [j \in 1..MAX_PLY |->
                 IF j = d.ply + 1 THEN m
                 ELSE IF j > d.ply + 1 /\ j <= d.pv_length[d.ply + 2]
                   THEN d.pv[d.ply + 2][j]
                 ELSE d.pv[d.ply + 1][j]],
            !.pv_length[d.ply + 1] = d.pv_length[d.ply + 2]]


\* ------------------------------------------- util.rs: the result of the game

\* parse_move() panics: `8 - (rank as u32 - '0' as u32)` is below zero for
\* the rank character '9'; a build with overflow checks (debug) panics there,
\* a build without (release) wraps and goes on
parse_move_panics(d, s) ==
  /\ ~ (\/ Len(s) < 4
        \/ s[1] < 97 \/ s[1] > 104 \/ s[2] < 48 \/ s[2] > 57
        \/ s[3] < 97 \/ s[3] > 104 \/ s[4] < 48 \/ s[4] > 57)
  /\ (s[2] = 57 \/ s[4] = 57)

\* print_result(): the first move from index i on that makemove() accepts, or
\* first_move[1] when there is none
RECURSIVE FirstLegal(_, _)
FirstLegal(d, i) ==
  IF i >= d.first_move[2] THEN d.first_move[2]
  ELSE IF makemove(d, d.gen_dat[i + 1].m).ok THEN i
  ELSE FirstLegal(d, i + 1)

\* print_result(): the ply-0 moves it tries, up to the first legal one
ResultTried(d) == 0 .. Min({FirstLegal(d, 0), d.first_move[2] - 1})

\* print_result() panics: a makemove() it calls does
print_result_panics(d) ==
  \E i \in ResultTried(d) : makemove_panics(d, d.gen_dat[i + 1].m)

\* print_result() when it declares the draw from the second repetition on
print_result_from_two(d) ==
  LET tried == ResultTried(d)
      legal == {i \in tried : i = FirstLegal(d, 0)}
      wrote == {i \in tried : LET m == bytes(d.gen_dat[i + 1].m)
                              IN  ~(Bit(m.bits, 2) /\ (in_check(d, d.side) \/ CastleRefused(d, m.to)))}
      after == IF wrote = {} THEN d
               ELSE LET r == makemove(d, d.gen_dat[Max(wrote) + 1].m)
                    IN  IF r.ok THEN takeback(r.d) ELSE r.d
  IN  [d |-> after,
       text |-> IF legal = {}
                  THEN IF in_check(d, d.side)
                         THEN IF d.side = LIGHT THEN "0-1 {Black mates}"
                                                ELSE "1-0 {White mates}"
                         ELSE "1/2-1/2 {Stalemate}"
                ELSE IF reps(d) >= 2 THEN "1/2-1/2 {Draw by repetition}"
                ELSE IF d.fifty >= 100 THEN "1/2-1/2 {Draw by fifty move rule}"
                ELSE ""]

\* print_result(): [text |-> the result printed, "" when there is none,
\* d |-> the data afterwards]: every move tried is made and taken back, which
\* leaves its entry in hist_dat[hply]
print_result(d) ==
  LET tried == ResultTried(d)
      legal == {i \in tried : i = FirstLegal(d, 0)}
      wrote == {i \in tried : LET m == bytes(d.gen_dat[i + 1].m)
                              IN  ~(Bit(m.bits, 2) /\ (in_check(d, d.side) \/ CastleRefused(d, m.to)))}
      after == IF wrote = {} THEN d
               ELSE LET r == makemove(d, d.gen_dat[Max(wrote) + 1].m)
                    IN  IF r.ok THEN takeback(r.d) ELSE r.d
  IN  [d |-> after,
       text |-> IF legal = {}
                  THEN IF in_check(d, d.side)
                         THEN IF d.side = LIGHT THEN "0-1 {Black mates}"
                                                ELSE "1-0 {White mates}"
                         ELSE "1/2-1/2 {Stalemate}"
                ELSE IF reps(d) = 2 THEN "1/2-1/2 {Draw by repetition}"
                ELSE IF d.fifty >= 100 THEN "1/2-1/2 {Draw by fifty move rule}"
                ELSE ""]

\* ------------------------------------------------------------ the state

VARIABLES
  d,      \* the program's Data
  pc,     \* where the modelled caller stands
  stack,  \* the frames of the search()/quiesce() calls in progress
  ret,    \* the value the last search()/quiesce() call returned
  now,    \* the clock read by get_ms()
  last,   \* the last board operation: its name, result, move and the Data before it
  seen    \* what has been observed of the think() call in progress

vars == <<d, pc, stack, ret, now, last, seen>>

\* the fields of Data that make up the position
Pos(x) ==
  [color |-> x.color, piece |-> x.piece, side |-> x.side, xside |-> x.xside,
   castle |-> x.castle, ep |-> x.ep, fifty |-> x.fifty, hash |-> x.hash,
   ply |-> x.ply, hply |-> x.hply]

\* the board of x
Board(x) == [color |-> x.color, piece |-> x.piece]

\* nothing has been observed of a think() call on the position of x
NotSeen(x) ==
  [entry |-> Pos(x),          \* the position when think() was called
   how |-> "none",            \* how the last search()/quiesce() call returned
   fn |-> "none",             \* which of the two it was
   iters |-> 0,               \* the iterations think() has completed
   iter_pv |-> [k \in 1..MAX_PLY |-> 0], \* pv[0] when the last of them completed
   iter_len |-> 0,            \* pv_length[0] when the last of them completed
   raised |-> 0,              \* the last root move that raised alpha in this iteration
   raised_pv |-> [k \in 1..MAX_PLY |-> 0], \* pv[0] as that move left it
   timed |-> FALSE,           \* checkup() has reported that the time is up
   timed_ply |-> 0,           \* ply when it did
   timed_hply |-> 0,          \* hply when it did
   timed_fn |-> "none",       \* the function that called it
   made |-> 0,                \* the calls of makemove()
   evals |-> 0,               \* the calls of eval()
   unwound |-> 0,             \* the takeback() calls of think() after a timeout
   reports |-> <<>>,          \* what think() has printed: depth, nodes, score, pv
   first |-> <<>>,            \* what the caller's first call of think() printed
   call |-> 1,                \* which of the caller's calls of think() this is
   calls |-> 1]               \* how many calls of think() the caller makes

NoOp == [op |-> "none", ok |-> FALSE, m |-> 0, before |-> Pos(NewData),
         tried |-> Board(NewData)]

\* ------------------------------------------ a client of the board operations

\* how many moves the board walk applies on top of its starting position
MaxWalk == 2

\* A game played through Engine::makemove, Engine::clear_ply and Engine::gen:
\* the Data after the moves of line, each applied to the position before it.
RECURSIVE PlayMoves(_, _, _, _)
PlayMoves(x, line, lo, hi) ==
  IF lo > hi THEN x
  ELSE IF lo = hi THEN gen([makemove(x, line[lo]).d EXCEPT !.ply = 0])
  ELSE LET mid == (lo + hi) \div 2
       IN  CHOOSE z \in {PlayMoves(y, line, mid + 1, hi) :
                            y \in {PlayMoves(x, line, lo, mid)}} : TRUE

PlayLine(x, line) == PlayMoves(x, line, 1, Len(line))

\* e2e4 d7d5 e4d5 c7c6 d5c6 g8f6 c6b7 e7e6 g1f3 f8e7 f1c4
LineA ==
  <<402662452, 402660107, 285219620, 268440074, 285217307, 5382, 285214994,
    268440588, 11582, 3077, 8765>>

\* e2e4 e7e6 e4e5
LineB == <<402662452, 268440588, 268442660>>

WalkLines == {<<>>, LineA, LineB}

\* Engine::new(), start(), init_board(), then the moves of a line
WalkInit ==
  /\ d \in {PlayLine(init_board(NewData), line) : line \in WalkLines}
  /\ pc = "gen"
  /\ stack = <<>>
  /\ ret = 0
  /\ now = 0
  /\ last = NoOp
  /\ seen = NotSeen(NewData)

\* Engine::gen()
Gen ==
  /\ pc = "gen"
  /\ d' = gen(d)
  /\ pc' = "board"
  /\ UNCHANGED <<stack, ret, now, last, seen>>

\* Engine::makemove() on a move of the list gen() made for this position
MakeMove ==
  /\ pc = "board"
  /\ d.ply < MaxWalk
  /\ \E i \in d.first_move[d.ply + 1] .. d.first_move[d.ply + 2] - 1 :
       LET mv == d.gen_dat[i + 1].m
           r == makemove(d, mv)
       IN  /\ ~makemove_panics(d, mv)
           /\ d' = r.d
           /\ last' = [op |-> "makemove", ok |-> r.ok, m |-> mv, before |-> Pos(d),
                       tried |-> Board(MoveApplied(d, mv))]
  /\ pc' = "gen"
  /\ UNCHANGED <<stack, ret, now, seen>>

\* Engine::takeback() of a move the walk applied; the walk goes back to where
\* it started once it has begun to take moves back
TakeBack ==
  /\ pc \in {"board", "back"}
  /\ d.ply > 0
  /\ ~takeback_panics(d)
  /\ d' = takeback(d)
  /\ last' = [last EXCEPT !.op = IF last.op = "makemove" /\ last.ok
                                   THEN "takeback_made" ELSE "takeback"]
  /\ pc' = "back"
  /\ UNCHANGED <<stack, ret, now, seen>>

Next == Gen \/ MakeMove \/ TakeBack

Spec == WalkInit /\ [][Next]_vars

\* ------------------------------------------- search.rs: think() step by step

\* A call in progress: fn is the function, i the index of the move its loop
\* is at (for think(), the depth of its iteration)
Frame(fn, alpha, beta, depth) ==
  [fn |-> fn, alpha |-> alpha, beta |-> beta, depth |-> depth,
   c |-> FALSE, f |-> FALSE, i |-> 0]

Top == stack[Len(stack)]
Pop == SubSeq(stack, 1, Len(stack) - 1)
SetTop(fr) == [stack EXCEPT ![Len(stack)] = fr]

\* What a step of search() or quiesce() comes to: it goes on in its loop
\* ("loop"), calls itself ("call"), becomes a call of quiesce() ("tail"),
\* returns a value ("return") or returns Timeout ("timeout")
Out(kind, x, fr) ==
  [kind |-> kind, d |-> x, frame |-> fr, child |-> fr, value |-> 0, how |-> "none",
   made |-> 0, evals |-> 0, raised |-> 0]

Returns(x, fr, value, how) ==
  [Out("return", x, fr) EXCEPT !.value = value, !.how = how]

\* the repetition test when it is applied at the root as well
Repeated_at_root(x) == reps(x) # 0

\* search(): "if this isn't the root of the search tree (where we have to
\* pick a move and can't simply return 0) then check to see if the position
\* is a repeat"
Repeated(x) == x.ply # 0 /\ reps(x) # 0

\* search() and quiesce(), "are we too deep?"
TooDeep(x) == x.ply >= MAX_PLY - 1 \/ x.hply >= HIST_STACK - 1

\* search() up to its loop, the clock reading t when it looks at the clock
search_enter(x, fr, t) ==
  IF fr.depth = 0 THEN Out("tail", x, [fr EXCEPT !.fn = "quiesce"])
  ELSE
    LET d1 == [x EXCEPT !.nodes = x.nodes + 1]
        d2 == [d1 EXCEPT !.pv_length[d1.ply + 1] = d1.ply]
        c == in_check(d2, d2.side)
        d3 == gen(d2)
        d4 == IF d3.follow_pv THEN sort_pv(d3) ELSE d3
    IN  IF Housekeeping(d1.nodes) /\ ~checkup(d1, t) THEN Out("timeout", d1, fr)
        ELSE IF Repeated(d2) THEN Returns(d2, fr, 0, "reps")
        ELSE IF TooDeep(d2) THEN [Returns(d2, fr, eval(d2), "deep") EXCEPT !.evals = 1]
        ELSE Out("loop", d4, [fr EXCEPT !.depth = IF c THEN fr.depth + 1 ELSE fr.depth,
                                        !.c = c, !.f = FALSE,
                                        !.i = d4.first_move[d4.ply + 1]])

\* quiesce() up to its loop
quiesce_enter(x, fr, t) ==
  LET d1 == [x EXCEPT !.nodes = x.nodes + 1]
      d2 == [d1 EXCEPT !.pv_length[d1.ply + 1] = d1.ply]
      e == eval(d2)
      d3 == gen_caps(d2)
      d4 == IF d3.follow_pv THEN sort_pv(d3) ELSE d3
  IN  IF Housekeeping(d1.nodes) /\ ~checkup(d1, t) THEN Out("timeout", d1, fr)
      ELSE IF TooDeep(d2) THEN [Returns(d2, fr, eval(d2), "deep") EXCEPT !.evals = 1]
      ELSE IF e >= fr.beta THEN [Returns(d2, fr, fr.beta, "cutoff") EXCEPT !.evals = 1]
      ELSE [Out("loop", d4, [fr EXCEPT !.alpha = IF e > fr.alpha THEN e ELSE fr.alpha,
                                       !.i = d4.first_move[d4.ply + 1]])
              EXCEPT !.evals = 1]

\* search() and quiesce(), the start of a turn of the loop: the best of the
\* moves left is sorted to index i and made; then the call for the position
\* after it, or the next turn when makemove() refuses the move
TryMove(x, fr) ==
  LET d1 == sort(x, fr.i)
      r == makemove(d1, d1.gen_dat[fr.i + 1].m)
      child == IF fr.fn = "search"
                 THEN Frame("search", -fr.beta, -fr.alpha, fr.depth - 1)
                 ELSE Frame("quiesce", -fr.beta, -fr.alpha, 0)
  IN  IF ~r.ok THEN [Out("loop", r.d, [fr EXCEPT !.i = fr.i + 1]) EXCEPT !.made = 1]
      ELSE [Out("call", r.d, [fr EXCEPT !.f = TRUE]) EXCEPT !.child = child, !.made = 1]

\* search() after its loop when no move was legal, as if it were stalemate
NoMoveValue_draw(x, fr) == 0

\* search() after its loop when no move was legal, the mate score the same
\* at every ply
NoMoveValue_flat(x, fr) == IF fr.c THEN -10000 ELSE 0

\* search() after its loop when no move was legal: checkmate or stalemate
NoMoveValue(x, fr) == IF fr.c THEN -10000 + x.ply ELSE 0

\* search_end without the test of the halfmove clock
search_end_no_fifty(x, fr) ==
  IF ~fr.f THEN Returns(x, fr, NoMoveValue(x, fr), "nomove")
  ELSE Returns(x, fr, fr.alpha, "alpha")

\* search() after its loop
search_end(x, fr) ==
  IF ~fr.f THEN Returns(x, fr, NoMoveValue(x, fr), "nomove")
  ELSE IF x.fifty >= 100 THEN Returns(x, fr, 0, "fifty")
  ELSE Returns(x, fr, fr.alpha, "alpha")

\* quiesce() after its loop
quiesce_end(x, fr) == Returns(x, fr, fr.alpha, "alpha")

\* search_returned when the history value grows only for a move that takes
\* nothing and reaches beta
search_returned_cutoffs(x, fr, value) ==
  LET v == -value
      d1 == takeback(x)
      m == bytes(d1.gen_dat[fr.i + 1].m)
      d2 == [d1 EXCEPT !.history[m.from + 1][m.to + 1] = @ + fr.depth]
  IN  IF v > fr.alpha
        THEN IF v >= fr.beta
               THEN Returns(IF Bit(m.bits, 1) THEN d1 ELSE d2, fr, fr.beta, "cutoff")
             ELSE [Out("loop", UpdatePV(d1, d1.gen_dat[fr.i + 1].m),
                       [fr EXCEPT !.alpha = v, !.i = fr.i + 1])
                     EXCEPT !.raised = IF d1.ply = 0 THEN d1.gen_dat[fr.i + 1].m ELSE 0]
        ELSE Out("loop", d1, [fr EXCEPT !.i = fr.i + 1])

\* search(), the rest of a turn of the loop, value being what the call for
\* the position after move i returned
search_returned(x, fr, value) ==
  LET v == -value
      d1 == takeback(x)
      m == bytes(d1.gen_dat[fr.i + 1].m)
      d2 == [d1 EXCEPT !.history[m.from + 1][m.to + 1] = @ + fr.depth]
  IN  IF v > fr.alpha
        THEN IF v >= fr.beta THEN Returns(d2, fr, fr.beta, "cutoff")
             ELSE [Out("loop", UpdatePV(d2, d1.gen_dat[fr.i + 1].m),
                       [fr EXCEPT !.alpha = v, !.i = fr.i + 1])
                     EXCEPT !.raised = IF d1.ply = 0 THEN d1.gen_dat[fr.i + 1].m ELSE 0]
        ELSE Out("loop", d1, [fr EXCEPT !.i = fr.i + 1])

\* quiesce(), the rest of a turn of the loop
quiesce_returned(x, fr, value) ==
  LET v == -value
      d1 == takeback(x)
  IN  IF v > fr.alpha
        THEN IF v >= fr.beta THEN Returns(d1, fr, fr.beta, "cutoff")
             ELSE Out("loop", UpdatePV(d1, d1.gen_dat[fr.i + 1].m),
                      [fr EXCEPT !.alpha = v, !.i = fr.i + 1])
        ELSE Out("loop", d1, [fr EXCEPT !.i = fr.i + 1])

\* get_ms(): the clock never goes back; of the readings below stop_time and
\* of those from stop_time on, one each is kept
Clock(x) == IF now < x.stop_time THEN {now, x.stop_time} ELSE {now}

\* the clock readings of a call that is entered: none but at housekeeping
Readings(x) == IF Housekeeping(x.nodes + 1) THEN Clock(x) ELSE {now}

\* the step whose outcome is out is taken
Step(out) ==
  /\ d' = out.d
  /\ pc' = CASE out.kind = "loop" -> "loop"
             [] out.kind \in {"call", "tail"} -> "call"
             [] out.kind = "return" -> "ret"
             [] OTHER -> "timeout"
  /\ stack' = CASE out.kind = "call" -> Append(SetTop(out.frame), out.child)
                [] out.kind = "return" -> Pop
                [] OTHER -> SetTop(out.frame)
  /\ ret' = IF out.kind = "return" THEN out.value ELSE ret
  /\ seen' = [seen EXCEPT !.how = IF out.kind = "return" THEN out.how ELSE @,
                          !.fn = IF out.kind = "return" THEN out.frame.fn ELSE @,
                          !.raised_pv = IF out.raised # 0 THEN out.d.pv[1] ELSE @,
                          !.made = @ + out.made,
                          !.evals = @ + out.evals,
                          !.raised = IF out.raised # 0 THEN out.raised ELSE @,
                          !.timed = @ \/ out.kind = "timeout",
                          !.timed_ply = IF out.kind = "timeout" THEN d.ply ELSE @,
                          !.timed_hply = IF out.kind = "timeout" THEN d.hply ELSE @,
                          !.timed_fn = IF out.kind = "timeout" THEN out.frame.fn ELSE @]
  /\ UNCHANGED last

\* think() with a book move when the lookup is counted as a node
BookReply_counted(x, bm) == [x EXCEPT !.pv[1][1] = bm, !.nodes = @ + 1]

\* think(): "try the opening book first"; the book's move is left in pv[0][0]
BookReply(x, bm) == [x EXCEPT !.pv[1][1] = bm]

\* Think when the history table is left as the search before filled it
Think_keeps_history ==
  /\ pc = "think"
  /\ \E j \in 0 .. Max({BookCount(d), 1}) - 1 :
       LET bm == book_move(d, j)
       IN  IF bm # -1
             THEN /\ d' = BookReply(d, bm)
                  /\ pc' = "done"
                  /\ stack' = stack
             ELSE /\ d' = [d EXCEPT !.start_time = now,
                                    !.stop_time = now + d.max_time,
                                    !.ply = 0,
                                    !.nodes = 0,
                                    !.pv = [p \in 1..MAX_PLY |-> [k \in 1..MAX_PLY |-> 0]]]
                  /\ pc' = "iter"
                  /\ stack' = << [Frame("think", 0, 0, 0) EXCEPT !.i = 1] >>
  /\ UNCHANGED <<ret, now, last, seen>>

\* think() up to its loop: the book move, or the search set up. j is what
\* rand() % total_count comes to in book_move().
Think ==
  /\ pc = "think"
  /\ \E j \in 0 .. Max({BookCount(d), 1}) - 1 :
       LET bm == book_move(d, j)
       IN  IF bm # -1
             THEN /\ d' = BookReply(d, bm)
                  /\ pc' = "done"
                  /\ stack' = stack
             ELSE /\ d' = [d EXCEPT !.start_time = now,
                                    !.stop_time = now + d.max_time,
                                    !.ply = 0,
                                    !.nodes = 0,
                                    !.pv = [p \in 1..MAX_PLY |-> [k \in 1..MAX_PLY |-> 0]],
                                    !.history = [f \in 1..64 |-> [k \in 1..64 |-> 0]]]
                  /\ pc' = "iter"
                  /\ stack' = << [Frame("think", 0, 0, 0) EXCEPT !.i = 1] >>
  /\ UNCHANGED <<ret, now, last, seen>>

\* think(): the next iteration calls search() at the root, or the loop ends
Iterate ==
  /\ pc = "iter"
  /\ IF Top.i <= d.max_depth
       THEN /\ d' = [d EXCEPT !.follow_pv = TRUE]
            /\ stack' = Append(stack, Frame("search", -10000, 10000, Top.i))
            /\ pc' = "call"
       ELSE /\ pc' = "done"
            /\ UNCHANGED <<d, stack>>
  /\ seen' = [seen EXCEPT !.raised = 0]
  /\ UNCHANGED <<ret, now, last>>

\* search() is entered
SearchEnter ==
  /\ pc = "call"
  /\ Top.fn = "search"
  /\ \E t \in (IF Top.depth = 0 THEN {now} ELSE Readings(d)) :
       /\ now' = t
       /\ Step(search_enter(d, Top, t))

\* quiesce() is entered
QuiesceEnter ==
  /\ pc = "call"
  /\ Top.fn = "quiesce"
  /\ \E t \in Readings(d) :
       /\ now' = t
       /\ Step(quiesce_enter(d, Top, t))

\* search() tries the next move of its list
SearchTry ==
  /\ pc = "loop"
  /\ Top.fn = "search"
  /\ Top.i < d.first_move[d.ply + 2]
  /\ Step(TryMove(d, Top))
  /\ UNCHANGED now

\* search() has gone through its list
SearchEnd ==
  /\ pc = "loop"
  /\ Top.fn = "search"
  /\ Top.i >= d.first_move[d.ply + 2]
  /\ Step(search_end(d, Top))
  /\ UNCHANGED now

\* quiesce() tries the next move of its list
QuiesceTry ==
  /\ pc = "loop"
  /\ Top.fn = "quiesce"
  /\ Top.i < d.first_move[d.ply + 2]
  /\ Step(TryMove(d, Top))
  /\ UNCHANGED now

\* quiesce() has gone through its list
QuiesceEnd ==
  /\ pc = "loop"
  /\ Top.fn = "quiesce"
  /\ Top.i >= d.first_move[d.ply + 2]
  /\ Step(quiesce_end(d, Top))
  /\ UNCHANGED now

\* the call search() made has returned a value
SearchReturn ==
  /\ pc = "ret"
  /\ Top.fn = "search"
  /\ Step(search_returned(d, Top, ret))
  /\ UNCHANGED now

\* the call quiesce() made has returned a value
QuiesceReturn ==
  /\ pc = "ret"
  /\ Top.fn = "quiesce"
  /\ Step(quiesce_returned(d, Top, ret))
  /\ UNCHANGED now

\* PassTimeout when Timeout is taken for a value and the loop goes on
PassTimeout_resumes ==
  /\ pc = "timeout"
  /\ Top.fn \in {"search", "quiesce"}
  /\ stack' = Pop
  /\ pc' = "ret"
  /\ UNCHANGED <<d, ret, now, last, seen>>

\* the call search() or quiesce() made has returned Timeout: so does it
PassTimeout ==
  /\ pc = "timeout"
  /\ Top.fn \in {"search", "quiesce"}
  /\ stack' = Pop
  /\ UNCHANGED <<d, pc, ret, now, last, seen>>

\* ThinkReturn when the loop of think() does not count its iterations
ThinkReturn_again ==
  /\ pc = "ret"
  /\ Top.fn = "think"
  /\ seen' = [seen EXCEPT !.iters = @ + 1, !.iter_pv = d.pv[1],
                          !.iter_len = d.pv_length[1],
                          !.reports = Append(@, [depth |-> Top.i, nodes |-> d.nodes,
                                                 x |-> ret,
                                                 pv |-> SubSeq(d.pv[1], 1, d.pv_length[1])])]
  /\ pc' = "iter"
  /\ UNCHANGED <<d, stack, ret, now, last>>

\* think(): the root search() has returned a value
ThinkReturn ==
  /\ pc = "ret"
  /\ Top.fn = "think"
  /\ seen' = [seen EXCEPT !.iters = @ + 1, !.iter_pv = d.pv[1],
                          !.iter_len = d.pv_length[1],
                          !.reports = Append(@, [depth |-> Top.i, nodes |-> d.nodes,
                                                 x |-> ret,
                                                 pv |-> SubSeq(d.pv[1], 1, d.pv_length[1])])]
  /\ IF ret > 9000 \/ ret < -9000
       THEN pc' = "done" /\ stack' = stack
       ELSE pc' = "iter" /\ stack' = SetTop([Top EXCEPT !.i = Top.i + 1])
  /\ UNCHANGED <<d, ret, now, last>>

\* ThinkTakeback when think() takes back one move and returns
ThinkTakeback_once ==
  /\ pc = "timeout"
  /\ Top.fn = "think"
  /\ d.ply # 0
  /\ d' = takeback(d)
  /\ pc' = "done"
  /\ seen' = [seen EXCEPT !.unwound = @ + 1]
  /\ UNCHANGED <<stack, ret, now, last>>

\* think(): the root search() has returned Timeout and a move is still applied
ThinkTakeback ==
  /\ pc = "timeout"
  /\ Top.fn = "think"
  /\ d.ply # 0
  /\ d' = takeback(d)
  /\ seen' = [seen EXCEPT !.unwound = @ + 1]
  /\ UNCHANGED <<pc, stack, ret, now, last>>

\* think(): the root search() has returned Timeout and no move is applied
ThinkTimedOut ==
  /\ pc = "timeout"
  /\ Top.fn = "think"
  /\ d.ply = 0
  /\ pc' = "done"
  /\ UNCHANGED <<d, stack, ret, now, last, seen>>

\* the deepest search of the starting position
MaxDepth == 4

\* the longest search time
MaxTime == 1

\* 1. f3 e5 2. g4: Black mates with Qh4
FoolsMate == <<MoveValue(53, 45, 0, 16), MoveValue(12, 28, 0, 24), MoveValue(54, 38, 0, 24)>>

\* 1. g4: node 1024 of Black's search to depth 3 is a node of search()
GrobLine == <<MoveValue(54, 38, 0, 24)>>

\* 1. f3 e5 2. g4 Qh4: White is checkmated
FoolsMated == FoolsMate \o <<MoveValue(3, 39, 0, 0)>>

\* Sam Loyd's stalemate in ten moves, short of White's last move: 1. e3 a5
\* 2. Qh5 Ra6 3. Qxa5 h5 4. h4 Rah6 5. Qxc7 f6 6. Qxd7+ Kf7 7. Qxb7 Qd3
\* 8. Qxb8 Qh7 9. Qxc8 Kg6, and 10. Qe6 leaves Black without a move
LoydLine ==
  <<268446772, 402659336, 7995, 4096, 16783391, 402661135, 402663223, 5904,
    16779800, 268440845, 16780042, 3332, 16779531, 11011, 16777481, 3883,
    16777729, 5645>>

\* a game that comes down to White's king on c6 and queen on c4 against
\* Black's king on c8, White to move: Qg8 is checkmate on the back rank
QueenLine ==
  <<268447543, 4609, 402662966, 5894, 402661681, 16785682, 10809, 16786967,
    285222447, 16789537, 16789560, 1543, 16781119, 402659336, 16780815,
    16780806, 16783408, 16786958, 16777240, 16793126, 16777728, 16777731,
    402662709, 16792894, 16792892, 268440845, 15419, 5893, 12330, 16786711,
    268446515, 16792101, 16792124, 268440331, 8496, 2820, 402662452,
    402659593, 15418, 779, 402661938, 285221401, 285221419, 2819, 13373, 1035,
    12833, 5122, 14652, 16786452, 15668, 16790052, 16790073, 1284, 14898, 3333,
    15421, 5133, 13628, 268442901, 15162, 402659850, 16187, 7188, 11573, 5148,
    15679, 5396, 11309, 3605, 16784701, 402660364, 13100, 5902, 11315,
    268442387, 16784413, 285221403, 16783900, 3607, 16785946, 1294, 9004, 1029,
    6691, 772, 4634, 515>>

\* the same game, and then the queen and Black's king go to and fro, Qc5 Kb8
\* Qc4 Kc8, until a hundred half-moves have gone by without a capture
DrawnLine ==
  QueenLine \o [k \in 1 .. 96 |->
                  CASE k % 4 = 1 -> MoveValue(34, 26, 0, 0)
                    [] k % 4 = 2 -> MoveValue(2, 1, 0, 0)
                    [] k % 4 = 3 -> MoveValue(26, 34, 0, 0)
                    [] OTHER -> MoveValue(1, 2, 0, 0)]

\* the same game, and then Qc5 Kb8 Qc4 Kc8 Qc5: Black is to move, and Kb8
\* brings back a position the game has been through
ShuffleLine == SubSeq(DrawnLine, 1, Len(QueenLine) + 5)

\* the same game up to Qxf5, then e7e5 and ninety-nine half-moves of the
\* queen and the kings: White Kd2 Qb3 Pc4, Black Kf1 Pc5 d6 e5; Black is to
\* move and the halfmove clock is at 99
ClockLine ==
  SubSeq(QueenLine, 1, 71) \o
  <<
    402660364, 7709, 3342, 13854, 5389, 11830, 3349, 14126, 1293, 9527, 3589,
    7461, 1550, 13597, 3590, 12597, 5902, 14129, 7703, 9527, 5662, 11557,
    7702, 13613, 9758, 5429, 12070, 15637, 11823, 14909, 14126, 12858, 12087,
    11052, 9775, 14898, 12070, 11322, 10031, 15404, 7975, 6204, 7711, 12312,
    9502, 8240, 11557, 2080, 9517, 13355, 11813, 13108, 13870, 3080, 12086,
    3596, 14127, 2574, 16183, 522, 14143, 14899, 16183, 15162, 14143, 5122,
    13879, 15419, 11574, 3092, 9773, 2828, 9510, 1035, 7717, 15164, 10014,
    260, 11815, 2049, 13870, 12296, 15670, 48, 15933, 2304, 13630, 9225,
    15669, 3876, 13629, 12815, 15925, 13115, 15678, 11058, 15933, 11307,
    15678, 10540
  >>

\* the knights go out and back, Ng1-f3 Ng8-f6 Nf3-g1 Nf6-g8, until hist_dat
\* has room for one more move only
LongLine ==
  [k \in 1 .. HIST_STACK - 1 |->
     CASE k % 4 = 1 -> MoveValue(62, 45, 0, 0)
       [] k % 4 = 2 -> MoveValue(6, 21, 0, 0)
       [] k % 4 = 3 -> MoveValue(45, 62, 0, 0)
       [] OTHER -> MoveValue(21, 6, 0, 0)]

\* a book of three lines: "e2e4 e7e5", "e2e4 c7c5", "d2d4 d7d5"
SmallBook ==
  << <<101, 50, 101, 52, 32, 101, 55, 101, 53>>,
     <<101, 50, 101, 52, 32, 99, 55, 99, 53>>,
     <<100, 50, 100, 52, 32, 100, 55, 100, 53>> >>

\* bench.rs: the position of the benchmark
BENCH_COLOR ==
  <<
      6,   1,   1,   6,   6,   1,   1,   6,
      1,   6,   6,   6,   6,   1,   1,   1,
      6,   1,   6,   1,   1,   6,   1,   6,
      6,   6,   6,   1,   6,   6,   0,   6,
      6,   6,   1,   0,   6,   6,   6,   6,
      6,   6,   0,   6,   6,   6,   0,   6,
      0,   0,   0,   6,   6,   0,   0,   0,
      0,   6,   0,   6,   0,   6,   0,   6
  >>

BENCH_PIECE ==
  <<
      6,   3,   2,   6,   6,   3,   5,   6,
      0,   6,   6,   6,   6,   0,   0,   0,
      6,   0,   6,   4,   0,   6,   1,   6,
      6,   6,   6,   1,   6,   6,   1,   6,
      6,   6,   0,   0,   6,   6,   6,   6,
      6,   6,   0,   6,   6,   6,   0,   6,
      0,   0,   4,   6,   6,   0,   2,   0,
      3,   6,   2,   6,   3,   6,   5,   6
  >>

\* bench(): the book closed and the benchmark position set up
bench_board(x) ==
  set_hash([x EXCEPT !.book_lines = <<>>,
                     !.color = BENCH_COLOR, !.piece = BENCH_PIECE,
                     !.side = LIGHT, !.xside = DARK,
                     !.castle = 0, !.ep = -1, !.fifty = 0, !.ply = 0, !.hply = 0])

\* a game for think(): the moves played, the book, max_depth, and how many
\* times the caller calls think() on the position (bench() does so three
\* times, on its own position)
Game(line, book, max_depth, calls) ==
  [line |-> line, book |-> book, max_depth |-> max_depth, max_time |-> MaxTime,
   calls |-> calls, bench |-> FALSE]

\* what think() is called with
Games ==
  {Game(<<>>, <<>>, n, 1) : n \in {1, 2, MaxDepth}}
  \cup {Game(<<>>, <<>>, 3, 2)}
  \cup {Game(<<>>, SmallBook, 1, 1)}
  \cup {Game(FoolsMate, <<>>, n, 1) : n \in {1, 3}}
  \cup {Game(FoolsMate, <<>>, 2, 2)}
  \cup {Game(QueenLine, <<>>, n, 1) : n \in 1..3}
  \cup {Game(g, <<>>, 1, 1) : g \in {FoolsMated, LongLine}}
  \cup {Game(g, <<>>, 2, 1) : g \in {LoydLine, DrawnLine}}
  \cup {Game(GrobLine, <<>>, 3, 1)}
  \cup {Game(ShuffleLine, <<>>, 3, 1)}
  \cup {Game(ClockLine, <<>>, 2, 1)}
  \cup {[Game(<<>>, SmallBook, 1, 3) EXCEPT !.bench = TRUE]}

\* main(): init_board(), open_book(), gen(), the moves of the game (each
\* followed by ply = 0 and gen()) or the bench command, max_time and
\* max_depth set, then think() is called
ThinkInit ==
  /\ \E g \in Games :
       LET played == PlayLine(gen(init_board([NewData EXCEPT !.book_lines = g.book])),
                              g.line)
           x == IF g.bench THEN bench_board(played) ELSE played
       IN  /\ d = [x EXCEPT !.max_depth = g.max_depth, !.max_time = g.max_time]
           /\ seen = [NotSeen(x) EXCEPT !.calls = g.calls]
  /\ pc = "think"
  /\ stack = <<>>
  /\ ret = 0
  /\ now = 0
  /\ last = NoOp

\* the caller calls think() again on the position think() has returned with
ThinkAgain ==
  /\ pc = "done"
  /\ seen.call < seen.calls
  /\ pc' = "think"
  /\ stack' = <<>>
  /\ seen' = [NotSeen(d) EXCEPT !.calls = seen.calls, !.call = seen.call + 1,
                                !.first = IF seen.call = 1 THEN seen.reports
                                          ELSE seen.first]
  /\ UNCHANGED <<d, ret, now, last>>

NextThink ==
  \/ Think \/ Iterate
  \/ SearchEnter \/ SearchTry \/ SearchEnd \/ SearchReturn
  \/ QuiesceEnter \/ QuiesceTry \/ QuiesceEnd \/ QuiesceReturn
  \/ PassTimeout \/ ThinkReturn \/ ThinkTakeback \/ ThinkTimedOut
  \/ ThinkAgain

SpecThink == ThinkInit /\ [][NextThink]_vars

\* think() is not running: it has returned and the caller calls it no more
ThinkIdle == pc = "done" /\ seen.call >= seen.calls

\* a step of think() or of its caller
ThinkSteps == vars' # vars

\* think() as the program runs it: one thread that goes on with its next
\* step as long as it has one (weak fairness of NextThink, which has a step
\* in every state but those of ThinkIdle)
SpecThinkLive ==
  /\ SpecThink
  /\ []<>ThinkIdle \/ []<><<ThinkSteps>>_vars

\* ------------------------------------------------ xboard.rs: the command loop

\* what the loop did with its last command: the text typed, what parse_move()
\* returned, whether a move was made, what was printed, which function
\* panicked, and the position before
Command(op, text, index, ok, result, failure, x) ==
  [op |-> op, text |-> text, index |-> index, ok |-> ok, result |-> result,
   failure |-> failure, before |-> Pos(x)]

\* how many commands are typed into the loop
MaxTyped == 2

\* texts that are not moves: "e2e", "i2e4", "e2`4", "e/e4", "e2e:", "e0e4",
\* "e2e0", "e9e4", "e2e9", "a3a6"
NoMoves ==
  { <<101, 50, 101>>, <<105, 50, 101, 52>>, <<101, 50, 96, 52>>,
    <<101, 47, 101, 52>>, <<101, 50, 101, 58>>, <<101, 48, 101, 52>>,
    <<101, 50, 101, 48>>, <<101, 57, 101, 52>>, <<101, 50, 101, 57>>,
    <<97, 51, 97, 54>> }

\* what is typed at the prompt: a move of the list as move_str() writes it, a
\* promotion without its letter, or a text that is no move
Typed(x) ==
  LET listed == {move_str(bytes(x.gen_dat[i + 1].m)) : i \in 0 .. x.first_move[2] - 1}
  IN  listed \cup {SubSeq(s, 1, 4) : s \in listed} \cup NoMoves

\* the games played before the loop is observed
LoopLines ==
  {<<>>, LineA, FoolsMate, LoydLine, LongLine,
   SubSeq(LongLine, 1, 7), SubSeq(LongLine, 1, 11)}

\* xboard(): init_board(), gen(), then the moves of a line typed in
LoopInit ==
  /\ d \in {PlayLine(gen(init_board(NewData)), line) : line \in LoopLines}
  /\ pc = "prompt"
  /\ stack = <<>>
  /\ ret = 0
  /\ now = 0
  /\ last = Command("none", <<>>, -1, FALSE, "", "none", NewData)
  /\ seen = NotSeen(NewData)

\* the text typed is not a command: it is taken for a move
UserMove ==
  /\ pc = "prompt"
  /\ seen.made < MaxTyped
  /\ seen' = [seen EXCEPT !.made = @ + 1]
  /\ \E s \in Typed(d) : \E i \in {parse_move(d, s)} :
       \/ /\ parse_move_panics(d, s)
          /\ pc' = "failed"
          /\ d' = d
          /\ last' = Command("move", s, -1, FALSE, "", "parse_move", d)
       \/ /\ i = -1
          /\ pc' = "prompt"
          /\ d' = d
          /\ last' = Command("move", s, i, FALSE, "Error (unknown command)", "none", d)
       \/ /\ i # -1
          /\ IF makemove_panics(d, d.gen_dat[i + 1].m)
               THEN /\ pc' = "failed"
                    /\ d' = d
                    /\ last' = Command("move", s, i, FALSE, "", "makemove", d)
             ELSE \E r \in {makemove(d, d.gen_dat[i + 1].m)} :
               IF ~r.ok
                 THEN /\ pc' = "prompt"
                      /\ d' = r.d
                      /\ last' = Command("move", s, i, FALSE, "Error (unknown command)", "none", d)
               ELSE \E d1 \in {gen([r.d EXCEPT !.ply = 0])} :
                 IF print_result_panics(d1)
                   THEN /\ pc' = "failed"
                        /\ d' = d1
                        /\ last' = Command("move", s, i, TRUE, "", "print_result", d)
                 ELSE \E printed \in {print_result(d1)} :
                        /\ pc' = "prompt"
                        /\ d' = printed.d
                        /\ last' = Command("move", s, i, TRUE, printed.text, "none", d)
  /\ UNCHANGED <<stack, ret, now>>

\* "undo"
Undo ==
  /\ pc = "prompt"
  /\ seen.made < MaxTyped
  /\ seen' = [seen EXCEPT !.made = @ + 1]
  /\ d' = IF d.hply = 0 THEN d ELSE gen([takeback(d) EXCEPT !.ply = 0])
  /\ last' = Command("undo", <<>>, -1, d.hply # 0, "", "none", d)
  /\ UNCHANGED <<pc, stack, ret, now>>

NextLoop == UserMove \/ Undo

SpecLoop == LoopInit /\ [][NextLoop]_vars

\* ------------------------------------------- xboard.rs: "hint" and then a move

\* "sd": max_time = 1 << 25
SD_MAX_TIME == 33554432

\* the game typed in before the loop is observed: LineA and then h7h6, after
\* which the pawn on b7 can take on a8 or c8 and promote
HintLine == Append(LineA, MoveValue(15, 23, 0, 16))

\* the depths typed with "sd"
HintDepths == {1, 3}

\* what the loop has done: whether "hint" has been typed, and the move typed
\* last with what parse_move() returned, the move that was made for it and
\* whether makemove() accepted it
Hinted(hinted, text, index, m, ok) ==
  [hinted |-> hinted, text |-> text, index |-> index, m |-> m, ok |-> ok]

\* gen_dat[i].m, also beyond the entries written so far, which are zero
GenDatAt(x, i) == IF i + 1 <= Len(x.gen_dat) THEN x.gen_dat[i + 1].m ELSE 0

\* the moves the user may type: those of the position on the board, as
\* move_str() writes them
TypedMoves(x) ==
  LET fresh == gen([x EXCEPT !.ply = 0])
  IN  {move_str(bytes(fresh.gen_dat[i + 1].m)) : i \in 0 .. fresh.first_move[2] - 1}

\* xboard(): init_board(), gen(), the moves of the game typed in, "sd n"
HintInit ==
  /\ \E line \in {<<>>, HintLine} : \E n \in HintDepths :
       d = [PlayLine(gen(init_board(NewData)), line)
              EXCEPT !.max_depth = n, !.max_time = SD_MAX_TIME]
  /\ pc = "prompt"
  /\ stack = <<>>
  /\ ret = 0
  /\ now = 0
  /\ last = Hinted(FALSE, <<>>, -1, 0, FALSE)
  /\ seen = NotSeen(NewData)

\* "hint": think() is called
Hint ==
  /\ pc = "prompt"
  /\ ~last.hinted
  /\ pc' = "think"
  /\ stack' = <<>>
  /\ seen' = NotSeen(d)
  /\ last' = [last EXCEPT !.hinted = TRUE]
  /\ UNCHANGED <<d, ret, now>>

\* "hint": think() has returned, pv[0][0] is printed if it is a move, and
\* the loop reads its next command
HintPrinted ==
  /\ pc = "done"
  /\ pc' = "prompt"
  /\ UNCHANGED <<d, stack, ret, now, last, seen>>

\* the text typed is not a command: parse_move(), makemove() of the move at
\* the index it returned, then ply = 0 and gen()
HintMove ==
  /\ pc = "prompt"
  /\ \E s \in TypedMoves(d) : \E i \in {parse_move(d, s)} :
       IF i = -1
         THEN /\ d' = d
              /\ last' = Hinted(last.hinted, s, i, 0, FALSE)
       ELSE \E r \in {makemove(d, GenDatAt(d, i))} :
              /\ d' = IF r.ok THEN gen([r.d EXCEPT !.ply = 0]) ELSE r.d
              /\ last' = Hinted(last.hinted, s, i, GenDatAt(d, i), r.ok)
  /\ pc' = "moved"
  /\ UNCHANGED <<stack, ret, now, seen>>

NextHint ==
  \/ Hint \/ HintPrinted \/ HintMove
  \/ Think \/ Iterate
  \/ SearchEnter \/ SearchTry \/ SearchEnd \/ SearchReturn
  \/ QuiesceEnter \/ QuiesceTry \/ QuiesceEnd \/ QuiesceReturn
  \/ PassTimeout \/ ThinkReturn \/ ThinkTakeback \/ ThinkTimedOut

SpecHint == HintInit /\ [][NextHint]_vars

\* ------------------------------------- engine.rs: the caller and the thread

\* In this specification pc is the position of the background thread: "none"
\* before it is spawned, "recv" when it waits for a command, think()'s own
\* positions while it executes Command::Think, "stopped" when it has returned.
\* last holds the thread that calls the Engine and the two channels: whether
\* the caller runs, is blocked in recv() or in join(), or has dropped the
\* Engine; whether command_thread holds a handle; the commands sent and not
\* yet received; what is in the channel think() made for its reply (reply)
\* and in the one makemove() made (answer); the move and the boolean the
\* caller got last; the calls it has made; and, to compare with, the Data the
\* Engine began with, every command sent and every command received.

\* how many calls the caller makes
MaxCalls == 2

\* the games played through the Engine before it is observed
EngineGames ==
  {Game(<<>>, <<>>, 1, 1), Game(<<>>, SmallBook, 1, 1), Game(GrobLine, <<>>, 3, 1)}

\* a command with its argument
Sent(name, m) == [name |-> name, m |-> m]

\* the game the caller goes on with through Engine::makemove(): e2e4 e7e5
\* g1f3 b8c6, from the move that is due
CallerLine ==
  <<MoveValue(52, 36, 0, 24), MoveValue(12, 28, 0, 24), MoveValue(62, 45, 0, 0),
    MoveValue(1, 18, 0, 0)>>

\* Engine::new(), start(), open_book(), init_board(), gen(), the moves of a
\* game and set_max_time_and_depth(), all received and executed; or
\* Engine::new() alone
EngineInit ==
  /\ \E g \in EngineGames :
       d = [PlayLine(gen(init_board([NewData EXCEPT !.book_lines = g.book])), g.line)
              EXCEPT !.max_depth = g.max_depth, !.max_time = g.max_time]
  /\ \/ pc = "recv"
     \/ pc = "none" /\ d.max_depth = 1 /\ d.book_lines = <<>>
  /\ stack = <<>>
  /\ ret = 0
  /\ now = 0
  /\ last = [caller |-> "running", handle |-> pc = "recv", commands |-> <<>>,
             reply |-> <<>>, got |-> 0, answer |-> <<>>, accepted |-> FALSE, calls |-> 0,
             first |-> d, sent |-> <<>>, received |-> <<>>]
  /\ seen = NotSeen(NewData)

\* send_command(), on an Engine whose thread is there to receive
Send(c) ==
  /\ last.caller = "running"
  /\ pc \notin {"none", "stopped"}
  /\ last.calls < MaxCalls
  /\ UNCHANGED <<d, pc, stack, ret, now, seen>>

\* Engine::think(): the command is sent and the caller waits for the reply
CallThink ==
  /\ Send(Sent("Think", 0))
  /\ last' = [last EXCEPT !.commands = Append(@, Sent("Think", 0)),
                          !.sent = Append(@, Sent("Think", 0)),
                          !.caller = "blocked", !.calls = @ + 1]

\* Engine::gen(): the command is sent and the caller goes on
CallGen ==
  /\ Send(Sent("Gen", 0))
  /\ last' = [last EXCEPT !.commands = Append(@, Sent("Gen", 0)),
                          !.sent = Append(@, Sent("Gen", 0)),
                          !.calls = @ + 1]

\* Engine::makemove(): the command is sent and the caller waits for the reply
CallMakeMove ==
  /\ \E m \in {CallerLine[k] : k \in {last.first.hply + 1
                  + Cardinality({i \in DOMAIN last.sent : last.sent[i].name = "MakeMove"})}
                  \cap DOMAIN CallerLine} :
       /\ Send(Sent("MakeMove", m))
       /\ last' = [last EXCEPT !.commands = Append(@, Sent("MakeMove", m)),
                               !.sent = Append(@, Sent("MakeMove", m)),
                               !.caller = "blocked", !.calls = @ + 1]

\* Engine::stop(): with a handle in command_thread, Command::Stop is sent and
\* the caller waits in join(); without, nothing is done
CallStop ==
  /\ last.caller = "running"
  /\ last.calls < MaxCalls
  /\ last' = IF last.handle
               THEN [last EXCEPT !.commands = Append(@, Sent("Stop", 0)),
                                 !.sent = Append(@, Sent("Stop", 0)),
                                 !.handle = FALSE,
                                 !.caller = "joining", !.calls = @ + 1]
               ELSE [last EXCEPT !.calls = @ + 1]
  /\ UNCHANGED <<d, pc, stack, ret, now, seen>>

\* join() when it returns at once
CallerJoins_early ==
  /\ last.caller \in {"joining", "dropping"}
  /\ last' = [last EXCEPT !.caller = IF @ = "joining" THEN "running" ELSE "gone"]
  /\ UNCHANGED <<d, pc, stack, ret, now, seen>>

\* Engine::stop(): join() returns
CallerJoins ==
  /\ last.caller \in {"joining", "dropping"}
  /\ pc = "stopped"
  /\ last' = [last EXCEPT !.caller = IF @ = "joining" THEN "running" ELSE "gone"]
  /\ UNCHANGED <<d, pc, stack, ret, now, seen>>

\* Drop for Engine: stop() is called and the Engine is gone
Drop ==
  /\ last.caller = "running"
  /\ last' = IF last.handle
               THEN [last EXCEPT !.commands = Append(@, Sent("Stop", 0)),
                                 !.sent = Append(@, Sent("Stop", 0)),
                                 !.handle = FALSE,
                                 !.caller = "dropping"]
               ELSE [last EXCEPT !.caller = "gone"]
  /\ UNCHANGED <<d, pc, stack, ret, now, seen>>

\* Engine::think(), Engine::makemove(): receiver.recv() returns the reply
CallerReceives ==
  /\ last.caller = "blocked"
  /\ \/ /\ last.reply # <<>>
        /\ last' = [last EXCEPT !.caller = "running", !.got = Head(last.reply), !.reply = <<>>]
     \/ /\ last.answer # <<>>
        /\ last' = [last EXCEPT !.caller = "running", !.accepted = Head(last.answer),
                                !.answer = <<>>]
  /\ UNCHANGED <<d, pc, stack, ret, now, seen>>

\* recv() when it hands out the command sent last
Received_latest(q) == [command |-> q[Len(q)], left |-> SubSeq(q, 1, Len(q) - 1)]

\* process_commands(): receiver.recv() hands out the command sent first of
\* those in the channel
Received(q) == [command |-> Head(q), left |-> Tail(q)]

\* process_commands(): the next command is received; Command::Gen and
\* Command::MakeMove are executed, Command::Think is begun, on Command::Stop
\* the thread returns
WorkerReceives ==
  /\ pc = "recv"
  /\ last.commands # <<>>
  /\ \E r \in {Received(last.commands)} :
       /\ CASE r.command.name = "Gen" ->
                 /\ d' = gen(d)
                 /\ last' = [last EXCEPT !.commands = r.left, !.received = Append(@, r.command)]
                 /\ UNCHANGED <<pc, seen>>
            [] r.command.name = "MakeMove" ->
                 /\ ~makemove_panics(d, r.command.m)
                 /\ d' = makemove(d, r.command.m).d
                 /\ last' = [last EXCEPT !.commands = r.left, !.received = Append(@, r.command),
                                         !.answer = <<makemove(d, r.command.m).ok>>]
                 /\ UNCHANGED <<pc, seen>>
            [] r.command.name = "Think" ->
                 /\ pc' = "think"
                 /\ seen' = NotSeen(d)
                 /\ d' = d
                 /\ last' = [last EXCEPT !.commands = r.left, !.received = Append(@, r.command)]
            [] OTHER ->
                 /\ pc' = "stopped"
                 /\ last' = [last EXCEPT !.commands = r.left, !.received = Append(@, r.command)]
                 /\ UNCHANGED <<d, seen>>
  /\ stack' = <<>>
  /\ UNCHANGED <<ret, now>>

\* WorkerReplies when the move is sent as soon as the search has stopped
WorkerReplies_early ==
  /\ pc \in {"done", "timeout"}
  /\ pc' = "recv"
  /\ last' = [last EXCEPT !.reply = <<d.pv[1][1]>>]
  /\ UNCHANGED <<d, stack, ret, now, seen>>

\* process_commands(), Command::Think: think() has returned and pv[0][0] is sent
WorkerReplies ==
  /\ pc = "done"
  /\ pc' = "recv"
  /\ last' = [last EXCEPT !.reply = <<d.pv[1][1]>>]
  /\ UNCHANGED <<d, stack, ret, now, seen>>

NextEngine ==
  \/ CallThink \/ CallGen \/ CallMakeMove \/ CallStop \/ Drop
  \/ CallerReceives \/ CallerJoins
  \/ WorkerReceives \/ WorkerReplies
  \/ Think \/ Iterate
  \/ SearchEnter \/ SearchTry \/ SearchEnd \/ SearchReturn
  \/ QuiesceEnter \/ QuiesceTry \/ QuiesceEnd \/ QuiesceReturn
  \/ PassTimeout \/ ThinkReturn \/ ThinkTakeback \/ ThinkTimedOut

SpecEngine == EngineInit /\ [][NextEngine]_vars

\* process_commands(): the background thread has a step to take: a command
\* waits in the channel, or the command it received is being executed
WorkerBusy ==
  /\ pc \notin {"none", "stopped"}
  /\ pc = "recv" => last.commands # <<>>

\* a step of the background thread: a command is received, or the thread's
\* place in think() or the Data it works on changes
WorkerSteps ==
  \/ last'.received # last.received
  \/ <<d, pc, stack, ret, now, seen>>' # <<d, pc, stack, ret, now, seen>>

\* the Engine when both threads are scheduled: the background thread is weakly
\* fair (it does not stay busy for ever without taking a step), and a join()
\* that can return does
SpecEngineLive ==
  /\ SpecEngine
  /\ []<>(~WorkerBusy) \/ []<><<WorkerSteps>>_vars
  /\ WF_vars(CallerJoins)

\* ------------------------------------------------------- scan.rs: the tokens

\* is_whitespace(): tab, line feed, vertical tab, carriage return and space
is_whitespace(ascii) == ascii \in {9, 10, 11, 13, 32}

\* String::from_utf8() accepts the bytes: each is below 0x80, or a lead byte
\* 0xC2..0xDF followed by one continuation byte 0x80..0xBF (the bytes read
\* here hold no lead byte of a longer sequence; 0x80..0xC1 and 0xF5..0xFF
\* begin no character)
RECURSIVE from_utf8_ok(_)
from_utf8_ok(bs) ==
  IF bs = <<>> THEN TRUE
  ELSE IF bs[1] < 128 THEN from_utf8_ok(Tail(bs))
  ELSE IF bs[1] \in 194..223 /\ Len(bs) >= 2 /\ bs[2] \in 128..191
         THEN from_utf8_ok(SubSeq(bs, 3, Len(bs)))
  ELSE FALSE

\* skip_whitespace when it reads past one whitespace byte at most
skip_whitespace_one(reader) ==
  IF reader # <<>> /\ is_whitespace(reader[1]) THEN Tail(reader) ELSE reader

\* scan_token_from(), first loop: bytes are read until one is not whitespace
\* or the reader is at its end; what is left begins with that byte
RECURSIVE skip_whitespace(_)
skip_whitespace(reader) ==
  IF reader = <<>> THEN <<>>
  ELSE IF is_whitespace(reader[1]) THEN skip_whitespace(Tail(reader))
  ELSE reader

\* scan_token_from(), second loop: bytes are read and pushed until one is
\* whitespace, which is read and not pushed, or the reader is at its end
RECURSIVE copy_bytes(_, _)
copy_bytes(bytes_read, reader) ==
  IF reader = <<>> THEN [bytes |-> bytes_read, reader |-> <<>>]
  ELSE IF is_whitespace(reader[1]) THEN [bytes |-> bytes_read, reader |-> Tail(reader)]
  ELSE copy_bytes(Append(bytes_read, reader[1]), Tail(reader))

\* scan_token_from(): Ok(token), or Err(InvalidData) when the bytes copied
\* are not UTF-8, and what is left in the reader
scan_token_from(reader) ==
  LET r == skip_whitespace(reader)
  IN  IF r = <<>>
        THEN [ok |-> TRUE, token |-> <<>>, reader |-> <<>>]
        ELSE LET c == copy_bytes(<<r[1]>>, Tail(r))
             IN  [ok |-> from_utf8_ok(c.bytes),
                  token |-> IF from_utf8_ok(c.bytes) THEN c.bytes ELSE <<>>,
                  reader |-> c.reader]

\* the longest input
MaxInput == 4

\* the most calls of scan_token_from() on one reader
MaxScans == 4

\* the bytes of the inputs: space, vertical tab, form feed, "a", the two
\* bytes of U+00E9, and 0xFF
ScanBytes == {32, 11, 12, 97, 195, 169, 255}

\* a reader over a slice of bytes, as in the tests of scan.rs
ScanInit ==
  /\ \E n \in 0..MaxInput : \E bs \in [1..n -> ScanBytes] :
       last = [input |-> bs, reader |-> bs, results |-> <<>>]
  /\ pc = "scan"
  /\ d = NewData
  /\ stack = <<>>
  /\ ret = 0
  /\ now = 0
  /\ seen = NotSeen(NewData)

\* one call of scan_token_from() on the reader
ScanToken ==
  /\ pc = "scan"
  /\ Len(last.results) < MaxScans
  /\ \E r \in {scan_token_from(last.reader)} :
       last' = [last EXCEPT !.reader = r.reader,
                            !.results = Append(@, [ok |-> r.ok, token |-> r.token])]
  /\ UNCHANGED <<d, pc, stack, ret, now, seen>>

NextScan == ScanToken

SpecScan == ScanInit /\ [][NextScan]_vars

\* ------------------------------------------------- the board operations' laws

\* C1: a takeback() that immediately follows a makemove() that returned true
\* leaves color, piece, side, xside, castle, ep, fifty, hash, ply and hply with
\* the values they had before the makemove().
C1_TakebackRestores ==
  last.op = "takeback_made" => Pos(d) = last.before

\* a castle move was made and taken back
C1_CastleTakenBack ==
  /\ last.op = "takeback_made"
  /\ Bit(bytes(last.m).bits, 2)
  /\ Pos(d) = last.before

\* an en passant capture was made and taken back
C1_EnPassantTakenBack ==
  /\ last.op = "takeback_made"
  /\ Bit(bytes(last.m).bits, 4)

\* a capturing promotion was made and taken back
C1_PromotionTakenBack ==
  /\ last.op = "takeback_made"
  /\ Bit(bytes(last.m).bits, 32)
  /\ Bit(bytes(last.m).bits, 1)

\* C2: when makemove() returns false the board, side, xside, castle, ep,
\* fifty, hash, ply and hply are what they were before the call.
C2_FailedMoveChangesNothing ==
  (last.op = "makemove" /\ ~last.ok) => Pos(d) = last.before

\* a move that leaves the mover's king attacked was refused after it had been
\* applied: the board it was tried on differs from the board left behind
C2_RolledBack ==
  /\ last.op = "makemove"
  /\ ~last.ok
  /\ ~Bit(bytes(last.m).bits, 2)
  /\ last.tried # Board(d)
  /\ Pos(d) = last.before

\* a castle move was refused
C2_CastleRefused ==
  /\ last.op = "makemove"
  /\ ~last.ok
  /\ Bit(bytes(last.m).bits, 2)

\* The squares strictly between a and b on the line through them
Between(a, b) ==
  {s \in 0..63 :
     /\ s # a /\ s # b
     /\ (row(s) - row(a)) * (col(b) - col(a)) = (col(s) - col(a)) * (row(b) - row(a))
     /\ (row(s) - row(a)) * (row(s) - row(b)) <= 0
     /\ (col(s) - col(a)) * (col(s) - col(b)) <= 0}

\* The piece on square a threatens square b by the rules of chess, stated on
\* ranks and files
Threatens(b, a, to) ==
  LET dr == row(to) - row(a)
      dc == col(to) - col(a)
      clear == \A s \in Between(a, to) : b.color[s + 1] = EMPTY
      diagonal == dr * dr = dc * dc
      straight == dr = 0 \/ dc = 0
  IN  /\ a # to
      /\ CASE b.piece[a + 1] = PAWN ->
                dc * dc = 1 /\ dr = (IF b.color[a + 1] = LIGHT THEN -1 ELSE 1)
            [] b.piece[a + 1] = KNIGHT -> dr * dr + dc * dc = 5
            [] b.piece[a + 1] = BISHOP -> diagonal /\ clear
            [] b.piece[a + 1] = ROOK -> straight /\ clear
            [] b.piece[a + 1] = QUEEN -> (diagonal \/ straight) /\ clear
            [] b.piece[a + 1] = KING -> dr * dr <= 1 /\ dc * dc <= 1
            [] OTHER -> FALSE

\* A king of side s stands on a square that a piece of the other side threatens
KingAttacked(b, s) ==
  \E k \in 0..63 :
    /\ b.color[k + 1] = s /\ b.piece[k + 1] = KING
    /\ \E a \in 0..63 : b.color[a + 1] = Other(s) /\ Threatens(b, a, k)

\* C3: makemove() returns true only when the king of the side that moved is
\* not attacked in the position it leaves, and returns false for every
\* generated move whose application leaves that king attacked.
C3_OnlyLegalMovesAccepted ==
  last.op = "makemove" =>
    /\ last.ok => ~KingAttacked(Board(d), last.before.side)
    /\ KingAttacked(last.tried, last.before.side) => ~last.ok

\* a generated move that leaves the mover's king attacked was refused
C3_IllegalMoveRefused ==
  /\ last.op = "makemove"
  /\ ~Bit(bytes(last.m).bits, 2)
  /\ KingAttacked(last.tried, last.before.side)
  /\ ~last.ok

\* a move was accepted from a position in which the mover's king was attacked
C3_CheckAnswered ==
  /\ last.op = "makemove"
  /\ last.ok
  /\ KingAttacked(last.before, last.before.side)

\* ------------------------------------------------------- the laws of think()

\* the moves of the list gen() makes for the position of x that makemove()
\* accepts
LegalMoves(x) ==
  LET y == gen(x)
  IN  {y.gen_dat[k].m : k \in {i \in y.first_move[y.ply + 1] + 1 .. y.first_move[y.ply + 2] :
                                 makemove(y, y.gen_dat[i].m).ok}}

C4_TimeoutInSearch ==
  /\ pc = "done"
  /\ seen.timed
  /\ seen.timed_fn = "search"
  /\ seen.unwound >= 1

\* think() has returned a book move
C4_BookMove ==
  /\ pc = "done"
  /\ BookCount(d) > 0
  /\ d.pv[1][1] # 0

\* think() has returned because of a mate score
C4_MateStop ==
  /\ pc = "done"
  /\ ~seen.timed
  /\ seen.iters >= 1
  /\ seen.iters < d.max_depth

\* think() has returned after its last iteration
C4_AllIterations ==
  /\ pc = "done"
  /\ seen.iters = d.max_depth
  /\ seen.iters >= 2

\* C5: once checkup() has reported that the time is up, no node is visited,
\* no move made, eval() not called, and alpha, the history table and the PV
\* stay as they are: the calls in progress return one after the other, and
\* Data changes by the takebacks of think() only.
C5_TimeoutPropagates ==
  [][seen.timed =>
       /\ d'.nodes = d.nodes
       /\ seen'.made = seen.made
       /\ seen'.evals = seen.evals
       /\ d'.history = d.history
       /\ d'.pv = d.pv
       /\ d'.pv_length = d.pv_length
       /\ stack' = stack \/ stack' = Pop
       /\ pc' \in {"timeout", "done"}
       /\ \/ d' = d
          \/ Top.fn = "think" /\ d.ply # 0 /\ d' = takeback(d)]_vars

\* every call of search() and quiesce() has returned Timeout to think(),
\* with two or more moves still applied
C5_TimeoutAtThink ==
  /\ seen.timed
  /\ pc = "timeout"
  /\ Top.fn = "think"
  /\ seen.timed_ply >= 2
  /\ seen.unwound = 0
  /\ d.ply = seen.timed_ply

\* C6 (as amended): when an iteration of think() times out, pv[0] is the
\* principal variation of the last completed iteration only if no root move
\* of the unfinished iteration has raised alpha; if one has, pv[0] is the line
\* the root wrote when alpha was last raised, and pv[0][0] is that root move.
C6_LineAfterTimeout ==
  (pc = "done" /\ seen.timed) =>
    IF seen.raised = 0 THEN d.pv[1] = seen.iter_pv
    ELSE d.pv[1] = seen.raised_pv /\ d.pv[1][1] = seen.raised

\* an iteration timed out after its root had raised alpha: pv[0] is not the
\* line of the iteration before
C6_UnfinishedLineLeft ==
  /\ pc = "done"
  /\ seen.timed
  /\ seen.iters >= 1
  /\ seen.raised # 0
  /\ d.pv[1] # seen.iter_pv

\* an iteration timed out before its root had raised alpha
C6_FinishedLineLeft ==
  /\ pc = "done"
  /\ seen.timed
  /\ seen.iters >= 1
  /\ seen.raised = 0

\* C6 as the specification has it: when an iteration of think() times out,
\* pv[0] is the principal variation of the last completed iteration.
C6_LastCompletedLine ==
  (pc = "done" /\ seen.timed) => d.pv[1] = seen.iter_pv

\* C7: think() leaves the empty move in pv[0][0] only when the side to move
\* has no legal move.
C7_EmptyMoveOnlyWithoutMoves ==
  (pc = "done" /\ d.pv[1][1] = 0) => LegalMoves(d) = {}

\* think() has returned the empty move for a side that is checkmated
C7_EmptyMoveWhenMated ==
  /\ pc = "done"
  /\ d.pv[1][1] = 0
  /\ LegalMoves(d) = {}

\* think() has returned the empty move though hist_dat has room for a move
\* and the side to move has moves
C7_EmptyMoveAtHistoryEnd ==
  /\ pc = "done"
  /\ d.pv[1][1] = 0
  /\ d.hply = HIST_STACK - 1
  /\ LegalMoves(d) # {}

\* C8: a call of search() with depth >= 1 that neither the repetition test
\* nor the depth caps cut short, at a node where the side to move has no
\* legal move, returns -10000 + ply (at most -9000) when that side's king is
\* attacked and 0 when it is not.
C8_NoMoveValue ==
  (/\ pc = "ret"
   /\ seen.fn = "search"
   /\ seen.how \notin {"reps", "deep"}
   /\ LegalMoves(d) = {}) =>
    IF KingAttacked(Board(d), d.side)
      THEN ret = -10000 + d.ply /\ ret <= -9000
      ELSE ret = 0

\* search() has returned from a node of stalemate
C8_Stalemate ==
  /\ pc = "ret"
  /\ seen.fn = "search"
  /\ seen.how = "nomove"
  /\ ~KingAttacked(Board(d), d.side)
  /\ LegalMoves(d) = {}
  /\ ret = 0

\* search() has returned from a node of checkmate below the root
C8_Checkmate ==
  /\ pc = "ret"
  /\ seen.fn = "search"
  /\ seen.how = "nomove"
  /\ KingAttacked(Board(d), d.side)
  /\ d.ply >= 1
  /\ ret = -10000 + d.ply

\* the squares of x on which side s has a piece p
Squares(x, s, p) == {k \in 0..63 : x.color[k + 1] = s /\ x.piece[k + 1] = p}

\* on the board of x there are the two kings and a queen of the side to move
LoneQueen(x) ==
  /\ Cardinality({k \in 0..63 : x.color[k + 1] # EMPTY}) = 3
  /\ Cardinality(Squares(x, x.side, QUEEN)) = 1
  /\ Cardinality(Squares(x, x.side, KING)) = 1
  /\ Cardinality(Squares(x, x.xside, KING)) = 1

\* the legal moves of x that checkmate
Mates(x) ==
  {m \in LegalMoves(x) :
     LET y == makemove(gen(x), m).d
     IN  KingAttacked(Board(y), y.side) /\ LegalMoves(y) = {}}

\* the checkmates of x by the queen, on the back rank of the king mated
BackRankMates(x) ==
  {m \in Mates(x) :
     /\ x.piece[bytes(m).from + 1] = QUEEN
     /\ \A k \in Squares(x, x.xside, KING) :
          /\ row(k) = (IF x.xside = DARK THEN 0 ELSE 7)
          /\ row(bytes(m).to) = row(k)}

\* the root search() of iteration Top.i of think() has returned for a
\* position of kings and a lone queen in which the queen can mate on the back
\* rank, the end of hist_dat and the fifty-move limit being some way off
QueenMateSearched ==
  /\ pc = "ret"
  /\ Top.fn = "think"
  /\ LoneQueen(d)
  /\ d.fifty < 100
  /\ ~TooDeep(d)
  /\ BackRankMates(d) # {}

\* C9 (as amended): in a position of kings and a lone queen in which the side
\* to move can mate on the back rank, the root search at depth 1 returns no
\* mate score (below it there is quiesce() only); the root search at depth 2
\* returns 9999 and a principal variation that is a mating move and nothing
\* else (pv_length[0] = 1), and think() searches no deeper.
C9_MateFoundAtDepthTwo ==
  QueenMateSearched =>
    IF Top.i = 1 THEN ret <= 9000 /\ ret >= -9000
    ELSE /\ Top.i = 2
         /\ ret = 9999
         /\ d.pv_length[1] = 1
         /\ d.pv[1][1] \in Mates(d)

\* the root search at depth 2 has returned the mate score
C9_QueenMates ==
  /\ QueenMateSearched
  /\ Top.i = 2
  /\ ret = 9999

\* the root search has returned 0 for such a position after a hundred
\* half-moves without a capture or a pawn move
C9_FiftyMoveDraw ==
  /\ pc = "ret"
  /\ Top.fn = "think"
  /\ LoneQueen(d)
  /\ d.fifty >= 100
  /\ BackRankMates(d) # {}
  /\ Top.i = 2
  /\ ret = 0

\* C9 as the specification has it: the root search at every depth from 1 on
\* returns 9999 and the mating move alone.
C9_MateFoundAtEveryDepth ==
  QueenMateSearched =>
    /\ ret = 9999
    /\ d.pv_length[1] = 1
    /\ d.pv[1][1] \in Mates(d)

\* gen() has just listed the moves of the position init_board() sets up
AtStart ==
  /\ pc = "board"
  /\ d.ply = 0
  /\ d.hply = 0
  /\ Pos(d) = Pos(init_board(NewData))

\* the moves gen() listed at ply 0
RootMoves == [k \in 1 .. d.first_move[2] - d.first_move[1] |->
                bytes(d.gen_dat[d.first_move[1] + k].m)]

\* C10 as amended: after init_board(), gen() at ply 0 leaves exactly 22 entries
\* in gen_dat[0 .. first_move[1]): 20 pawn and knight moves without a capture,
\* castle, en passant or promotion flag, then the castle candidates e1g1 and
\* e1c1, which carry the castle flag alone.
C10_StartMoves ==
  AtStart =>
    /\ d.first_move[1] = 0
    /\ d.first_move[2] = 22
    /\ \A k \in 1..20 : /\ ~Bit(RootMoves[k].bits, 1) /\ ~Bit(RootMoves[k].bits, 2)
                         /\ ~Bit(RootMoves[k].bits, 4) /\ ~Bit(RootMoves[k].bits, 32)
    /\ RootMoves[21] = [from |-> E1, to |-> G1, promote |-> 0, bits |-> 2]
    /\ RootMoves[22] = [from |-> E1, to |-> C1, promote |-> 0, bits |-> 2]

\* gen() has listed the moves of the starting position
C10_StartListed ==
  /\ AtStart
  /\ last.op = "none"
  /\ Len(d.gen_dat) = 22

\* C10 as stated: after init_board(), gen() at ply 0 leaves exactly 20 moves,
\* none with a capture, castle, en passant or promotion flag.
C10_TwentyMoves ==
  AtStart =>
    /\ d.first_move[1] = 0
    /\ d.first_move[2] = 20
    /\ \A k \in DOMAIN RootMoves :
          /\ ~Bit(RootMoves[k].bits, 1) /\ ~Bit(RootMoves[k].bits, 2)
          /\ ~Bit(RootMoves[k].bits, 4) /\ ~Bit(RootMoves[k].bits, 32)

\* ------------------------------------------------------ the en passant square

\* the move applied last and not taken back is a pawn's push of two squares
LastMoveDoublePush ==
  /\ d.hply > 0
  /\ LET m == bytes(d.hist_dat[d.hply].m)
     IN  /\ d.piece[m.to + 1] = PAWN
         /\ m.to - m.from \in {16, -16}

\* C11: ep is a square exactly when the move applied last (and not taken
\* back) was a pawn's push of two squares, and then it is the square the pawn
\* passed over; otherwise ep = -1. After e2e4 from the starting position ep
\* is 44 and fifty is 0, and gen() lists no en passant capture for Black.
C11_EpAfterDoublePush ==
  /\ d.ep = IF LastMoveDoublePush
              THEN LET m == bytes(d.hist_dat[d.hply].m) IN (m.from + m.to) \div 2
              ELSE -1
  /\ (d.hply = 1 /\ d.hist_dat[1].m = MoveValue(52, 36, 0, 24)) =>
       /\ d.ep = 44
       /\ d.fifty = 0
       /\ pc = "board" =>
            \A i \in d.first_move[d.ply + 1] + 1 .. d.first_move[d.ply + 2] :
              ~Bit(bytes(d.gen_dat[i].m).bits, 4)

\* e2e4 has been played from the starting position and Black's moves listed
C11_AfterE2E4 ==
  /\ pc = "board"
  /\ d.hply = 1
  /\ d.hist_dat[1].m = MoveValue(52, 36, 0, 24)
  /\ d.ep = 44

\* a takeback has brought back the ep square of the double push before it
C11_EpRestored ==
  /\ last.op = "takeback_made"
  /\ d.ep # -1
  /\ LastMoveDoublePush

\* a takeback has brought back ep = -1 after a double push was taken back
C11_EpCleared ==
  /\ last.op = "takeback_made"
  /\ Bit(bytes(last.m).bits, 8)
  /\ d.ep = -1

\* ----------------------------------------------------------- the laws of eval

\* the data x with side s to move and nothing else changed
WithSide(x, s) == [x EXCEPT !.side = s, !.xside = Other(s)]

\* C12: eval() of a position with White to move is the negation of eval() of
\* the same board with Black to move; checked on the positions quiesce() has
\* scored.
C12_EvalNegatedForOtherSide ==
  (pc = "ret" /\ seen.fn = "quiesce") =>
    eval(WithSide(d, LIGHT)) = -eval(WithSide(d, DARK))

\* quiesce() has returned the score eval() gave a position that is not level
C12_EvalTaken ==
  /\ pc = "ret"
  /\ seen.fn = "quiesce"
  /\ seen.evals > 0
  /\ eval(WithSide(d, LIGHT)) > 0
  /\ eval(WithSide(d, DARK)) < 0

\* ------------------------------------------------- think() called once more

\* C13: a call of think() on a position reports, depth by depth, the scores,
\* principal variations and node counts the first call on that position
\* reported, whatever the earlier search left in history, pv, pv_length,
\* nodes, follow_pv and gen_dat: as far as both calls got, their reports are
\* the same, and a call that is not timed out gets as far as the first.
C13_SameReports ==
  seen.call > 1 =>
    /\ \A k \in 1 .. Len(seen.reports) :
         k <= Len(seen.first) => seen.reports[k] = seen.first[k]
    /\ (pc = "done" /\ ~seen.timed) => Len(seen.reports) >= Len(seen.first)

\* the second call of think() on a position has reported its three depths
C13_SearchedAgain ==
  /\ pc = "done"
  /\ seen.call = 2
  /\ ~seen.timed
  /\ Len(seen.reports) = 3
  /\ seen.reports = seen.first
  /\ seen.reports[3].nodes > 0

\* bench() has made its third call of think()
C13_BenchThird ==
  /\ pc = "done"
  /\ seen.call = 3
  /\ seen.reports = seen.first
  /\ Len(seen.reports) = 1

\* ---------------------------------------------------- the command loop's laws

\* the Data before each of the last n moves of the game of x, latest first
RECURSIVE Earlier(_, _)
Earlier(x, n) ==
  IF n = 0 THEN <<>>
  ELSE IF n = 1 THEN <<takeback(x)>>
  ELSE LET h == n \div 2
       IN  CHOOSE z \in {early \o Earlier(early[h], n - h) : early \in {Earlier(x, h)}} : TRUE

\* the position: what is on the board, who is to move, where a pawn can be
\* taken en passant
SamePosition(a, b) ==
  /\ a.color = b.color
  /\ a.piece = b.piece
  /\ a.side = b.side
  /\ a.ep = b.ep

\* how many times the position of x has occurred earlier in the game, from
\* its first move on
Occurred(x) ==
  LET early == Earlier(x, x.hply)
  IN  Cardinality({k \in 1 .. x.hply : SamePosition(early[k], x)})

\* the loop has applied the move typed and the side to move has a legal move
MoveAppliedByLoop ==
  /\ pc = "prompt"
  /\ last.op = "move"
  /\ last.ok
  /\ LegalMoves(d) # {}

C14_FourthOccurrence ==
  /\ MoveAppliedByLoop
  /\ d.hply = 12
  /\ Occurred(d) = 3
  /\ last.result = ""

\* ------------------------------------------------- repetitions in the search

\* search() is about to be entered on a position whose hash is among those
\* reps() scans
RepeatedNode ==
  /\ pc = "call"
  /\ Top.fn = "search"
  /\ reps(d) > 0

\* the step taken is a return of 0 from the repetition test: no list is
\* generated, no move is made, the position is left as it was
DrawnAtOnce ==
  /\ pc' = "ret"
  /\ ret' = 0
  /\ seen'.how = "reps"
  /\ seen'.made = seen.made
  /\ d'.gen_dat = d.gen_dat
  /\ d'.first_move = d.first_move
  /\ Pos(d') = Pos(d)

C15_RepeatedRootSearched ==
  /\ pc = "loop"
  /\ Top.fn = "search"
  /\ d.ply = 0
  /\ reps(d) > 0
  /\ d.first_move[2] > 0

\* a repeated position is handed to quiesce(), which has no repetition test
C15_RepeatedLeaf ==
  /\ RepeatedNode
  /\ d.ply > 0
  /\ Top.depth = 0

\* ------------------------------------------------------ moves typed in

\* s is no move of the ply-0 list of x: too short, a file letter outside a..h,
\* a rank character that is no digit, a rank 0 or 9, or squares that no move
\* of the list goes from and to
Malformed(x, s) ==
  \/ Len(s) < 4
  \/ s[1] \notin 97 .. 104 \/ s[3] \notin 97 .. 104
  \/ s[2] \notin 48 .. 57 \/ s[4] \notin 48 .. 57
  \/ s[2] \in {48, 57} \/ s[4] \in {48, 57}
  \/ ~ \E i \in 1 .. x.first_move[2] :
         /\ bytes(x.gen_dat[i].m).from = (s[1] - 97) + 8 * (56 - s[2])
         /\ bytes(x.gen_dat[i].m).to = (s[3] - 97) + 8 * (56 - s[4])

\* the loop takes the text typed for a move
TypedIn ==
  /\ pc = "prompt"
  /\ last'.op = "move"
  /\ seen'.made = seen.made + 1

\* the loop goes on with nothing changed
Refused ==
  /\ pc' = "prompt"
  /\ last'.index = -1
  /\ ~last'.ok
  /\ d' = d

\* C16: parse_move() returns -1 without failing for every text that is too
\* short, has a file letter outside a..h, a rank character that is no digit,
\* a rank 0 or 9, or squares no move of the ply-0 list has, and the loop then
\* applies no move.
C16_NoMoveRefused ==
  [][(TypedIn /\ Malformed(d, last'.text)) => Refused]_vars

\* what holds in every build: such a text is refused, or it names rank 9 and
\* the subtraction in parse_move() has panicked
C16_RefusedOrPanicked ==
  [][(TypedIn /\ Malformed(d, last'.text))
       => \/ Refused
          \/ /\ pc' = "failed"
             /\ last'.failure = "parse_move"
             /\ 57 \in {last'.text[2], last'.text[4]}
             /\ d' = d]_vars

\* "e9e4" has been typed at the start of the game and parse_move() has panicked
C16_RankNinePanics ==
  /\ pc = "failed"
  /\ last.failure = "parse_move"
  /\ last.text = <<101, 57, 101, 52>>
  /\ d.hply = 0

\* "e2e9" has been typed and refused: the subtraction has wrapped
C16_RankNineRefused ==
  /\ pc = "prompt"
  /\ last.op = "move"
  /\ last.text = <<101, 50, 101, 57>>
  /\ last.index = -1

\* C17: for every move m of the ply-0 list gen() has just made,
\* parse_move(move_str(m)) is the index of m itself, and a promotion typed
\* without its letter selects the queen promotion of the same squares.
C17_MoveTextRoundTrip ==
  pc = "prompt" =>
    \A i \in 0 .. d.first_move[2] - 1 :
      LET m == bytes(d.gen_dat[i + 1].m)
          s == move_str(m)
          j == parse_move(d, SubSeq(s, 1, 4))
      IN  /\ ~parse_move_panics(d, s)
          /\ parse_move(d, s) = i
          /\ Bit(m.bits, 32) =>
               /\ j \in 0 .. d.first_move[2] - 1
               /\ bytes(d.gen_dat[j + 1].m) = [m EXCEPT !.promote = QUEEN]

\* the list holds promotions, a castle and captures, and all come back
C17_PromotionsListed ==
  /\ pc = "prompt"
  /\ \E i \in 1 .. d.first_move[2] : bytes(d.gen_dat[i].m).promote = KNIGHT
  /\ \E i \in 1 .. d.first_move[2] : Bit(bytes(d.gen_dat[i].m).bits, 2)
  /\ C17_MoveTextRoundTrip

\* "b7a8" has been typed and the pawn has become a queen
C17_QueenByDefault ==
  /\ pc = "prompt"
  /\ last.op = "move"
  /\ last.ok
  /\ Len(last.text) = 4
  /\ bytes(d.hist_dat[d.hply].m).promote = QUEEN
  /\ Bit(bytes(d.hist_dat[d.hply].m).bits, 32)
  /\ d.piece[bytes(d.hist_dat[d.hply].m).to + 1] = QUEEN

\* -------------------------------------------------------------- book moves

\* the moves book_move() can return for the position of d, one for each value
\* of rand() % total_count
BookMoves == {book_move(d, j) : j \in 0 .. BookCount(d) - 1}

\* C18: when book_move() returns a move, think() returns at once with
\* pv[0][0] equal to that move and without running search(): nodes, history,
\* ply, start_time, stop_time and the position are left as they were, as is
\* everything else in Data.
C18_BookMoveSkipsSearch ==
  [][(pc = "think" /\ BookCount(d) > 0)
       => /\ pc' = "done"
          /\ d'.pv[1][1] \in BookMoves
          /\ d'.pv[1][1] # -1
          /\ d' = [d EXCEPT !.pv[1][1] = d'.pv[1][1]]
          /\ d'.nodes = d.nodes /\ d'.history = d.history /\ d'.ply = d.ply
          /\ d'.start_time = d.start_time /\ d'.stop_time = d.stop_time
          /\ Pos(d') = Pos(d)
          /\ stack' = stack
          /\ seen'.made = seen.made /\ seen'.evals = seen.evals]_vars

\* think() has returned e2e4 from the book at the start of the game
C18_BookMoveReturned ==
  /\ pc = "done"
  /\ d.hply = 0
  /\ BookCount(d) = 3
  /\ d.pv[1][1] = MoveValue(52, 36, 0, 24)
  /\ d.nodes = 0
  /\ seen.made = 0

\* think() has returned d2d4, the move of the book's third line
C18_OtherBookMove ==
  /\ pc = "done"
  /\ BookCount(d) = 3
  /\ d.pv[1][1] = MoveValue(51, 35, 0, 24)

\* ------------------------------------------------------ the end of hist_dat

\* C19: no sequence of moves and undos typed into the command loop makes the
\* program fail for want of room in hist_dat: neither makemove() called by
\* the loop nor print_result() indexes it out of bounds.
C19_RoomForEveryMove ==
  pc = "failed" => last.failure \notin {"makemove", "print_result"}

\* the 400th half-move of the game has been made and print_result(), trying
\* the first move of the list, has written past the end of hist_dat
C19_HistoryOverrun ==
  /\ pc = "failed"
  /\ last.failure = "print_result"
  /\ last.ok
  /\ last.before.hply = HIST_STACK - 1
  /\ d.hply = HIST_STACK
  /\ makemove_panics(d, d.gen_dat[1].m)

\* one move earlier all is well: the 399th half-move is made, after an undo,
\* and the result is printed
C19_LastMoveWithRoom ==
  /\ pc = "prompt"
  /\ last.op = "move"
  /\ last.ok
  /\ d.hply = HIST_STACK - 1
  /\ last.result = "1/2-1/2 {Draw by fifty move rule}"

\* ------------------------------------------------- the caller of the Engine

\* the background thread is executing Command::Think
Thinking == pc \notin {"none", "recv", "stopped"}

\* C20: while the background thread executes Command::Think, the thread that
\* called Engine::think() is not blocked: it can go on to await and handle
\* input.
C20_CallerRunsWhileThinking ==
  Thinking => last.caller = "running"

\* what the code does: from the sending of the command to the receipt of the
\* reply the caller is blocked in recv(), so it is whenever the thread thinks
C20_CallerWaitsWhileThinking ==
  /\ Thinking => last.caller = "blocked"
  /\ (last.caller = "blocked") =>
       \/ Thinking
       \/ \E k \in DOMAIN last.commands : last.commands[k].name \in {"Think", "MakeMove"}
       \/ last.reply # <<>>
       \/ last.answer # <<>>

\* the thread is in the loop of search() and the caller is blocked
C20_BlockedInSearch ==
  /\ pc = "loop"
  /\ Top.fn = "search"
  /\ d.nodes > 0
  /\ last.caller = "blocked"

\* the caller has got the move think() found and runs again
C20_MoveReceived ==
  /\ pc = "recv"
  /\ last.caller = "running"
  /\ last.got # 0
  /\ last.got = d.pv[1][1]
  /\ d.nodes > 0

\* ------------------------------------------------ the commands of the Engine

\* the Data after the commands cs are executed one after the other on x, as
\* far as the position goes: think() is taken to leave it as it was
RECURSIVE Replay(_, _)
Replay(x, cs) ==
  IF cs = <<>> THEN x
  ELSE LET c == cs[Len(cs)]
           y == Replay(x, SubSeq(cs, 1, Len(cs) - 1))
       IN  CASE c.name = "Gen" -> gen(y)
             [] c.name = "MakeMove" -> makemove(y, c.m).d
             [] OTHER -> y

\* the position of x and the ply-0 move list
Placed(x) ==
  [at |-> [Pos(x) EXCEPT !.ply = 0],
   list |-> SubSeq(x.gen_dat, 1, x.first_move[2])]

C21_ThoughtAfterMove ==
  /\ Len(last.sent) = 2
  /\ last.sent[1].name = "MakeMove"
  /\ last.sent[2].name = "Think"
  /\ last.reply # <<>>
  /\ last.reply[1] # 0
  /\ seen.entry.hply = last.first.hply + 1
  /\ d.nodes > 0

\* -------------------------------------------------------- stopping the Engine

\* stop() has been called, by the caller or by drop(), and has not returned
Stopping == last.caller \in {"joining", "dropping"}

\* stop() is not in progress and command_thread holds no handle: the Engine
\* was never started or has been stopped
NoThread == last.caller = "running" /\ ~last.handle

C22_StoppedTwice ==
  /\ pc = "stopped"
  /\ last.caller = "running"
  /\ last.calls = 2
  /\ Len(last.sent) = 1

\* an Engine never started has been stopped and dropped
C22_NeverStarted ==
  /\ pc = "none"
  /\ last.caller = "gone"
  /\ last.calls = 1
  /\ last.sent = <<>>

\* ------------------------------------------------ one command at a time

\* what the caller's thread holds: where it stands, what it has sent and
\* what it has got back
CallerSide == <<last.caller, last.handle, last.calls, last.sent, last.got, last.accepted>>

\* C23: Data changes only in steps of the background thread, never in a step
\* of the caller; while think() runs no other command is received; and when
\* think()'s move is on its way to the caller every move the search made has
\* been taken back: the position is the one think() was called on.
C23_OneCommandAtATime ==
  /\ [][/\ d' # d => (WorkerBusy /\ CallerSide' = CallerSide)
        /\ Thinking => (last'.received = last.received /\ CallerSide' = CallerSide)]_vars
  /\ [](last.reply # <<>> =>
          /\ ~Thinking
          /\ last.caller = "blocked"
          /\ [Pos(d) EXCEPT !.ply = 0] = [seen.entry EXCEPT !.ply = 0])

\* a search that made moves and ran out of time has been unwound, and its
\* move is on its way to the caller
C23_TimedOutSearchUnwound ==
  /\ last.reply # <<>>
  /\ seen.timed
  /\ seen.unwound > 0

\* a search that made moves has run to its end and its move is on its way
C23_SearchedAndAnswered ==
  /\ last.reply # <<>>
  /\ seen.made > 0
  /\ ~seen.timed

\* ------------------------------------------------------------ the two kings

\* C24: in every position think() and its searches pass through, after
\* every makemove() and takeback(), the board holds exactly one LIGHT king
\* and exactly one DARK king, so that in_check() finds the king it looks for.
C24_OneKingEach ==
  /\ Cardinality(KingSquares(d, LIGHT)) = 1
  /\ Cardinality(KingSquares(d, DARK)) = 1
  /\ ~in_check_panics(d, LIGHT)
  /\ ~in_check_panics(d, DARK)

\* inside a search, two moves deep, the side to move is in check and a
\* capture has just been made: both kings are there
C24_CheckInSearch ==
  /\ pc \notin {"think", "done"}
  /\ d.ply >= 2
  /\ in_check(d, d.side)
  /\ d.hist_dat[d.hply].capture # EMPTY
  /\ Cardinality(KingSquares(d, LIGHT)) = 1
  /\ Cardinality(KingSquares(d, DARK)) = 1

\* ------------------------------------------------------- the tokens scanned

\* where the maximal runs of bytes that are not whitespace begin
RunStarts(bs) ==
  {i \in 1..Len(bs) : ~is_whitespace(bs[i]) /\ (i = 1 \/ is_whitespace(bs[i - 1]))}

\* the n-th maximal run of bytes that are not whitespace
Run(bs, n) ==
  LET i == CHOOSE s \in RunStarts(bs) : Cardinality({t \in RunStarts(bs) : t < s}) = n - 1
      j == CHOOSE e \in i..Len(bs) :
             /\ \A k \in i..e : ~is_whitespace(bs[k])
             /\ e = Len(bs) \/ is_whitespace(bs[e + 1])
  IN  SubSeq(bs, i, j)

C25_TokensThenEmpty ==
  /\ pc = "scan"
  /\ Len(last.results) = 4
  /\ last.results[1].ok /\ last.results[1].token # <<>>
  /\ last.results[2].ok /\ last.results[2].token # <<>>
  /\ last.results[3] = [ok |-> TRUE, token |-> <<>>]
  /\ last.results[4] = [ok |-> TRUE, token |-> <<>>]

C26_HashOfPosition ==
  pc \in {"gen", "board", "back"} =>
    /\ d.hash = set_hash(d).hash
    /\ d.hash = LET h == HashSquares(d.color, d.piece, 0, 63)
                     s == IF d.side = DARK THEN HASH_SIDE ELSE 0
                     e == IF d.ep # -1 THEN HASH_EP[d.ep + 1] ELSE 0
                 IN  Xor(Xor(h, s), e)

\* a move was taken back to a position with DARK to move and ep set
C26_TakenBackToEnPassant ==
  /\ last.op = "takeback_made"
  /\ d.side = DARK
  /\ d.ep # -1
  /\ d.hply > 0

\* a move that left the king in check was refused in a position with ep set
C26_RefusedWithEnPassant ==
  /\ last.op = "makemove"
  /\ ~last.ok
  /\ d.ep # -1

\* ------------------------------------------------------------- castle moves

\* makemove() was called with a castle move
CastleTried == last.op = "makemove" /\ Bit(bytes(last.m).bits, 2)

\* a piece of the side not to move in position b threatens square sq
Threatened(b, sq) ==
  \E a \in 0..63 : b.color[a + 1] = b.xside /\ Threatens(b, a, sq)

\* the square the rook of the castle move to square to starts from
CastleRook(to) == IF col(to) = 6 THEN to + 1 ELSE to - 2

\* the square the king starts from
CastleKing(to) == IF col(to) = 6 THEN to - 2 ELSE to + 2

\* the square the king crosses, where the rook lands
CastleCrossed(to) == IF col(to) = 6 THEN to - 1 ELSE to + 1

\* the rules of chess forbid the castle move to square to in position b
CastleForbidden(b, to) ==
  \/ KingAttacked(b, b.side)
  \/ \E sq \in Between(CastleKing(to), CastleRook(to)) : b.color[sq + 1] # EMPTY
  \/ Threatened(b, CastleCrossed(to))
  \/ Threatened(b, to)

\* C27: makemove() refuses a castle move, leaving everything as it was, when
\* the king is in check, or a square between king and rook is occupied, or
\* the square the king crosses or the one it lands on is attacked; every
\* other castle move is applied, the rook going to the square crossed.
C27_CastleRule ==
  CastleTried =>
    LET to == bytes(last.m).to
        s == last.before.side
    IN  /\ last.ok = ~CastleForbidden(last.before, to)
        /\ ~last.ok => Pos(d) = last.before
        /\ last.ok =>
              /\ d.piece[to + 1] = KING /\ d.color[to + 1] = s
              /\ d.piece[CastleCrossed(to) + 1] = ROOK /\ d.color[CastleCrossed(to) + 1] = s
              /\ d.color[CastleKing(to) + 1] = EMPTY
              /\ d.color[CastleRook(to) + 1] = EMPTY
              /\ d.hply = last.before.hply + 1

\* a castle move over empty squares was refused: a square is attacked
C27_RefusedForAttack ==
  /\ CastleTried
  /\ ~last.ok
  /\ \A sq \in Between(CastleKing(bytes(last.m).to), CastleRook(bytes(last.m).to)) :
        last.before.color[sq + 1] = EMPTY
  /\ ~KingAttacked(last.before, last.before.side)

\* a castle move was refused because the king is in check
C27_RefusedInCheck ==
  /\ CastleTried
  /\ ~last.ok
  /\ \A sq \in Between(CastleKing(bytes(last.m).to), CastleRook(bytes(last.m).to)) :
        last.before.color[sq + 1] = EMPTY
  /\ KingAttacked(last.before, last.before.side)

\* a castle move was made
C27_Castled ==
  /\ CastleTried
  /\ last.ok

\* ------------------------------------------------- the order moves are tried in

\* the position of x with the moves above ply p taken back
RECURSIVE Unmade(_, _)
Unmade(x, p) == IF x.ply <= p THEN x ELSE Unmade(takeback(x), p)

\* the move list of ply p
Listed(x, p) == SubSeq(x.gen_dat, x.first_move[p + 1] + 1, x.first_move[p + 2])

\* the ply of the call whose frame is stack[k]: think() calls search() at ply 0
PlyOf(k) == k - 2

\* how many moves of its list the call of stack[k] has tried: for a call in
\* its loop, those before index i; for a call that waits for the call it
\* made, or has just got its value, the move at i as well
TriedBy(k) ==
  LET upto == IF k = Len(stack) /\ pc = "loop" THEN stack[k].i ELSE stack[k].i + 1
  IN  upto - d.first_move[PlyOf(k) + 1]

\* C28: in every call of search() and quiesce() that is in its loop, the
\* moves tried so far stand at the head of the ply's list in non-increasing
\* order of score, and none of the moves still to come has a higher score
\* than one tried; the list holds each move once, and it holds the moves
\* that gen() or gen_caps() produces for the node's position.
C28_TriedInScoreOrder ==
  pc \in {"loop", "ret"} =>
    /\ \A k \in 2..Len(stack) :
          LET list == Listed(d, PlyOf(k))
          IN  /\ TriedBy(k) \in 0..Len(list)
              /\ \A a \in 1..TriedBy(k) : \A b \in (a + 1)..Len(list) :
                    list[a].score >= list[b].score
              /\ Cardinality({list[a].m : a \in 1..Len(list)}) = Len(list)
    /\ Len(stack) >= 2 =>
          LET p == PlyOf(Len(stack))
              node == Unmade(d, p)
              fresh == Listed(IF Top.fn = "search" THEN gen(node) ELSE gen_caps(node), p)
              list == Listed(d, p)
          IN  /\ Len(list) = Len(fresh)
              /\ {list[a].m : a \in 1..Len(list)} = {fresh[a].m : a \in 1..Len(fresh)}

\* search() has tried three moves with falling scores, and its list is not
\* in the order gen() made it in
C28_ThreeTriedSorted ==
  /\ pc = "loop"
  /\ Len(stack) >= 3
  /\ Top.fn = "search"
  /\ TriedBy(Len(stack)) >= 3
  /\ LET list == Listed(d, d.ply)
     IN  /\ list[1].score > list[2].score
         /\ list[2].score > list[3].score
         /\ list # Listed(gen(d), d.ply)
         /\ \E a \in 1..Len(list) : list[a].m # Listed(gen(d), d.ply)[a].m

\* ----------------------------------------------------------- following the PV

\* the moves made from the root to the node of x are pv[0][0..ply)
OnPV(x) ==
  \A j \in 1..x.ply : x.hist_dat[x.hply - x.ply + j].m = x.pv[1][j]

\* search() or quiesce() generates the moves of a node below the root with
\* follow_pv set, and so calls sort_pv()
SortPvBelowRoot == pc = "call" /\ pc' = "loop" /\ d.follow_pv /\ d.ply > 0

\* C29: whenever sort_pv() runs at a node below the root, the moves made
\* from the root to the node are pv[0][0..ply); and follow_pv, once false,
\* becomes true again only when think() begins its next iteration.
C29_FollowedOnlyOnPV ==
  [][/\ SortPvBelowRoot => OnPV(d)
     /\ (~d.follow_pv /\ d'.follow_pv) => pc = "iter"]_vars

\* the second half of C29 alone
C29_FalseUntilNextIteration ==
  [][(~d.follow_pv /\ d'.follow_pv) => pc = "iter"]_vars

\* at a node below the root that is not on the PV, sort_pv() has run and
\* has found the move pv[0][ply] in the list: it will be tried first
C29_FollowedOffPV ==
  /\ pc = "loop"
  /\ d.ply > 0
  /\ Top.i = d.first_move[d.ply + 1]
  /\ d.follow_pv
  /\ ~OnPV(d)

\* ------------------------------------------------------ the score of captures

\* the list gen() has made for the position on the board
Generated == Listed(d, d.ply)

\* C30 as stated: every move of the list with the capture bit, en passant
\* captures included, has a score of at least 1,000,000, above the score of
\* every move of the list that neither captures nor promotes.
C30_CapturesScoredHigh ==
  pc = "board" =>
    \A a \in 1..Len(Generated) :
      Bit(bytes(Generated[a].m).bits, 1) =>
        /\ Generated[a].score >= 1000000
        /\ \A b \in 1..Len(Generated) :
              (~Bit(bytes(Generated[b].m).bits, 1) /\ ~Bit(bytes(Generated[b].m).bits, 32))
                => Generated[b].score < Generated[a].score

\* gen() has listed an en passant capture with the history value of its
\* squares as its score, no higher than the score of a move of the list
\* that captures nothing
C30_EnPassantScoredLow ==
  /\ pc = "board"
  /\ \E a \in 1..Len(Generated) :
        /\ Bit(bytes(Generated[a].m).bits, 4)
        /\ Bit(bytes(Generated[a].m).bits, 1)
        /\ Generated[a].score = d.history[bytes(Generated[a].m).from + 1][bytes(Generated[a].m).to + 1]
        /\ Generated[a].score < 1000000
        /\ \E b \in 1..(a - 1) :
              /\ ~Bit(bytes(Generated[b].m).bits, 1)
              /\ Generated[b].score >= Generated[a].score

\* ------------------------------------------------------- the history table

\* the move the call on top of the stack is at in its list
MoveAt(k) == bytes(d.gen_dat[stack[k].i + 1].m)

\* the history table with the entry of move m grown by n
HistoryGrown(m, n) == [d.history EXCEPT ![m.from + 1][m.to + 1] = @ + n]

\* the table think() starts a search with
NoHistory == [f \in 1..64 |-> [k \in 1..64 |-> 0]]

\* the call search() made has returned a value above alpha
RaisesAlpha == pc = "ret" /\ Top.fn = "search" /\ -ret > Top.alpha

C31_ClearedAgain ==
  /\ pc = "iter"
  /\ seen.call = 2
  /\ Top.i = 1
  /\ d.history = NoHistory
  /\ seen.first # <<>>

\* ------------------------------------------------- the fifty-move rule in search()

\* search() returns a value from a node it has generated the moves of (no
\* repetition, not too deep) where the halfmove clock is at 100 or more and
\* the side to move has a legal move
ReturnsAtFifty ==
  /\ pc \in {"loop", "ret"}
  /\ Top.fn = "search"
  /\ pc' = "ret"
  /\ stack' = Pop
  /\ d'.fifty >= 100
  /\ LegalMoves(d') # {}

C32_CutoffAtFifty ==
  /\ pc = "ret"
  /\ seen.fn = "search"
  /\ seen.how = "cutoff"
  /\ d.fifty >= 100
  /\ ret # 0

\* ------------------------------------------------------ think() terminates

\* the clock has never reached stop_time: no call has returned Timeout
NeverTimedOut == ~seen.timed /\ now < d.stop_time

\* C33: every call of think() returns, also when the clock never reaches
\* stop_time; until then ply stays below MAX_PLY, the calls in progress are
\* think() and at most one of search() or quiesce() for each ply up to the
\* current one, every loop index stays within the list of its ply, which ends below
\* GEN_STACK, and think() completes at most max_depth iterations.
C33_ThinkTerminates ==
  /\ [](d.ply <= MAX_PLY - 1)
  /\ [](pc \in {"call", "loop", "ret", "timeout"} =>
          /\ Len(stack) <= d.ply + 2
          /\ pc # "timeout" => Len(stack) >= d.ply + 1
          /\ stack[1].fn = "think"
          /\ stack[1].i <= d.max_depth
          /\ \A k \in 2..Len(stack) : stack[k].fn \in {"search", "quiesce"})
  /\ [](pc = "loop" => /\ Top.i >= d.first_move[d.ply + 1]
                       /\ Top.i <= d.first_move[d.ply + 2]
                       /\ d.first_move[d.ply + 2] <= GEN_STACK)
  /\ [](seen.iters <= d.max_depth)
  /\ (pc = "think") ~> (pc = "done")

\* think() has returned after max_depth iterations of three or more, the
\* clock never having reached stop_time, and the search has extended its
\* depth for a check on the way
C33_AllIterationsNoTimeout ==
  /\ pc = "done"
  /\ seen.iters = d.max_depth
  /\ d.max_depth >= 3
  /\ NeverTimedOut
  /\ d.nodes > 1023

\* a node in check searches its moves at the depth it was called with, plus one
C33_CheckExtended ==
  /\ pc = "loop"
  /\ Top.fn = "search"
  /\ Top.c
  /\ d.ply > 0
  /\ Top.depth = stack[Len(stack) - 1].depth

\* ------------------------------------------------ eval(): rooks and their files

\* side s has a pawn on file f
PawnOnFile(x, s, f) ==
  \E i \in 0..63 : x.color[i + 1] = s /\ x.piece[i + 1] = PAWN /\ col(i) = f

\* the rooks of side s that stand on a file without a pawn of s
RooksOnFreeFiles(x, s) ==
  {i \in 0..63 : /\ x.color[i + 1] = s
                 /\ x.piece[i + 1] = ROOK
                 /\ ~PawnOnFile(x, s, col(i))}

\* the bonus for the file of the rook of side s on square i
RookFileBonus(x, s, i) ==
  IF PawnOnFile(x, s, col(i)) THEN 0
  ELSE IF PawnOnFile(x, Other(s), col(i)) THEN ROOK_SEMI_OPEN_FILE_BONUS
  ELSE ROOK_OPEN_FILE_BONUS

\* what the piece of side s on square i adds to the score of s when every
\* term is added: a rook its file bonus and the bonus for its seventh rank,
\* any other piece what eval() adds for it
TermAdded(x, s, i) ==
  LET pr == pawn_rank(x)
      pm == piece_mat(x)
  IN  IF x.color[i + 1] # s THEN 0
      ELSE IF x.piece[i + 1] = ROOK
        THEN RookFileBonus(x, s, i)
             + (IF row(i) = (IF s = LIGHT THEN 1 ELSE 6) THEN ROOK_ON_SEVENTH_BONUS ELSE 0)
      ELSE IF s = LIGHT THEN LightPiece(x, pr, pm, i).v
      ELSE DarkPiece(x, pr, pm, i)

RECURSIVE TermsAdded(_, _, _, _)
TermsAdded(x, s, lo, hi) ==
  IF lo = hi THEN TermAdded(x, s, lo)
  ELSE LET mid == (lo + hi) \div 2
       IN  TermsAdded(x, s, lo, mid) + TermsAdded(x, s, mid + 1, hi)

\* the score of side s when every term is added to its material
ScoreAccumulated(x, s) ==
  piece_mat(x)[s + 1] + pawn_mat(x)[s + 1] + TermsAdded(x, s, 0, 63)

\* quiesce() has called eval() for the position on the board and is at the
\* start of its loop
Evaluated == pc = "loop" /\ Top.fn = "quiesce" /\ Top.i = d.first_move[d.ply + 1]

\* C34 as stated: when eval() is called with a rook of either colour on a
\* file without a pawn of its own colour, the rook's side has its material
\* and placement terms and, added to them, 15 for each such rook on a file
\* without an enemy pawn and 10 for each on a file with one.
C34_RookFileBonusAdded ==
  (Evaluated /\ RooksOnFreeFiles(d, LIGHT) \cup RooksOnFreeFiles(d, DARK) # {}) =>
    /\ score(d)[LIGHT + 1] = ScoreAccumulated(d, LIGHT)
    /\ score(d)[DARK + 1] = ScoreAccumulated(d, DARK)

\* eval() has been called with a LIGHT rook on a file without a LIGHT pawn:
\* White's score is below the value of White's pieces and pawns, though
\* every term taken by itself would add to it
C34_LightScoreOverwritten ==
  /\ Evaluated
  /\ RooksOnFreeFiles(d, LIGHT) # {}
  /\ score(d)[LIGHT + 1] < piece_mat(d)[LIGHT + 1] + pawn_mat(d)[LIGHT + 1]
  /\ ScoreAccumulated(d, LIGHT) >= piece_mat(d)[LIGHT + 1] + pawn_mat(d)[LIGHT + 1]

\* eval() has been called with a DARK rook on a file with a LIGHT pawn and
\* without a DARK one and no LIGHT rook on a file without a LIGHT pawn:
\* Black's score lacks the 10 for each such rook, White's is the sum
C34_DarkSemiOpenUnpaid ==
  /\ Evaluated
  /\ RooksOnFreeFiles(d, LIGHT) = {}
  /\ \E i \in RooksOnFreeFiles(d, DARK) : PawnOnFile(d, LIGHT, col(i))
  /\ score(d)[LIGHT + 1] = ScoreAccumulated(d, LIGHT)
  /\ score(d)[DARK + 1] < ScoreAccumulated(d, DARK)

\* ------------------------------------------------------ eval(): passed pawns

\* the board seen from the other side: ranks reversed, colours exchanged
Mirrored(x) ==
  [x EXCEPT !.color = [i \in 1..64 |->
                         IF x.color[FLIP[i] + 1] = EMPTY THEN EMPTY
                         ELSE Other(x.color[FLIP[i] + 1])],
            !.piece = [i \in 1..64 |-> x.piece[FLIP[i] + 1]]]

\* the pawns of side s on the file of square sq or on a file next to it
PawnsNear(x, s, sq) ==
  {i \in SquaresOf(x, s, PAWN) : col(i) \in {col(sq) - 1, col(sq), col(sq) + 1}}

\* C35 as stated: eval() gives a DARK pawn what it gives the LIGHT pawn of
\* the mirrored board, the passed-pawn bonus included: a DARK pawn has the
\* bonus exactly when no LIGHT pawn of its file or of a file next to it is
\* further down the board than it (<= on all three files).
C35_DarkPawnMirrorsLight ==
  Evaluated =>
    \A sq \in SquaresOf(d, DARK, PAWN) :
      eval_dark_pawn(pawn_rank(d), sq)
        = eval_light_pawn(pawn_rank(Mirrored(d)), FLIP[sq + 1])

\* a DARK pawn has a LIGHT pawn beside it on the file to its right and no
\* LIGHT pawn of the three files further down the board: eval() gives it
\* no bonus, and gives the LIGHT pawn of the mirrored board the bonus
C35_BesideOnTheRight ==
  /\ Evaluated
  /\ \E sq \in SquaresOf(d, DARK, PAWN) :
        /\ \A i \in PawnsNear(d, LIGHT, sq) : row(i) <= row(sq)
        /\ \E i \in PawnsNear(d, LIGHT, sq) : row(i) = row(sq) /\ col(i) = col(sq) + 1
        /\ eval_light_pawn(pawn_rank(Mirrored(d)), FLIP[sq + 1])
             = eval_dark_pawn(pawn_rank(d), sq) + row(sq) * PASSED_PAWN_BONUS

\* --------------------------------------------- the move list parse_move() reads

\* the moves of the ply-0 list, in the order they stand in gen_dat
RootList(x) == [i \in 1 .. x.first_move[2] |-> x.gen_dat[i].m]

\* C36 as stated: whenever the loop is about to read a move, after "hint" or
\* not, the ply-0 list holds the moves gen() produces for the position in
\* the order gen() produces them; and the move made for the text typed is
\* the move typed, promotion piece included.
C36_ListAsGenerated ==
  /\ pc = "prompt" => RootList(d) = RootList(gen([d EXCEPT !.ply = 0]))
  /\ pc = "moved" => /\ last.index # -1
                     /\ move_str(bytes(last.m)) = last.text

\* the same without "hint": what holds of the list gen() has just made
C36_FreshListAsGenerated ==
  /\ (pc = "prompt" /\ ~last.hinted) => RootList(d) = RootList(gen([d EXCEPT !.ply = 0]))
  /\ (pc = "moved" /\ ~last.hinted) => /\ last.index # -1
                                        /\ move_str(bytes(last.m)) = last.text

\* after "hint", "b7a8q" has been typed and another move than the pawn's
\* promotion to a queen on a8 has been made for it
C36_WrongPromotion ==
  /\ pc = "moved"
  /\ last.hinted
  /\ last.text = <<98, 55, 97, 56, 113>>
  /\ last.ok
  /\ bytes(last.m) # [from |-> 9, to |-> 0, promote |-> QUEEN, bits |-> 49]

\* ------------------------------------------------------- the castle rights

\* piece p of side s stands on square sq of board b
Stands(b, s, p, sq) == b.color[sq + 1] = s /\ b.piece[sq + 1] = p

\* the king and the rook of castle bit b stand on their original squares
AtHome(x, b) ==
  CASE b = 1 -> Stands(x, LIGHT, KING, E1) /\ Stands(x, LIGHT, ROOK, H1)
    [] b = 2 -> Stands(x, LIGHT, KING, E1) /\ Stands(x, LIGHT, ROOK, A1)
    [] b = 4 -> Stands(x, DARK, KING, E8) /\ Stands(x, DARK, ROOK, H8)
    [] OTHER -> Stands(x, DARK, KING, E8) /\ Stands(x, DARK, ROOK, A8)

\* C37: in every state of the board walk each castle bit that is set has
\* its king and its rook on their original squares; and a castle move that
\* makemove() has accepted found a rook of the moving side on the corner
\* and has put it beside the king.
C37_RightsImplyHome ==
  /\ \A b \in {1, 2, 4, 8} : Bit(d.castle, b) => AtHome(d, b)
  /\ (CastleTried /\ last.ok) =>
       LET to == bytes(last.m).to
       IN  /\ Stands(last.before, last.before.side, ROOK, CastleRook(to))
           /\ Stands(last.before, last.before.side, KING, CastleKing(to))
           /\ Stands(d, last.before.side, ROOK, CastleCrossed(to))
           /\ d.color[CastleRook(to) + 1] = EMPTY

\* the pawn has taken the rook on a8, which has not moved: Black's king is
\* on e8 and the right to castle on the queen's side is gone
C37_RookTakenAtHome ==
  /\ last.op = "makemove"
  /\ last.ok
  /\ bytes(last.m).to = A8
  /\ Stands(last.before, DARK, ROOK, A8)
  /\ Bit(last.before.castle, 8)
  /\ Stands(d, DARK, KING, E8)
  /\ ~Bit(d.castle, 8)
  /\ Bit(d.castle, 4)

\* the rook has moved from h1 and the king has not: one right is gone
C37_RookLeftHome ==
  /\ last.op = "makemove"
  /\ last.ok
  /\ bytes(last.m).from = H1
  /\ Stands(d, LIGHT, KING, E1)
  /\ ~Bit(d.castle, 1)
  /\ Bit(d.castle, 2)

\* White has castled and has no right left
C37_CastledNoRights ==
  /\ CastleTried
  /\ last.ok
  /\ last.before.side = LIGHT
  /\ Bit(last.before.castle, 1)
  /\ ~Bit(d.castle, 1)
  /\ ~Bit(d.castle, 2)

\* ---------------------------------------------- the line think() leaves in pv[0]

\* the moves line[k..] can be played one after the other from position x,
\* each a move gen() lists that makemove() accepts
RECURSIVE LegalLine(_, _, _)
LegalLine(x, line, k) ==
  IF k > Len(line) THEN TRUE
  ELSE /\ line[k] \in LegalMoves(x)
       /\ LegalLine(makemove(x, line[k]).d, line, k + 1)

\* think() has returned after a search that completed an iteration
Searched == pc = "done" /\ seen.iters >= 1

\* C38: when think() has returned after a search that completed at least
\* one iteration, the moves pv[0][0..pv_length[0]) can be played one after
\* the other from the position on the board, each a legal move where it is
\* played; and pv[0][0], when it is a move at all, is legal on the board, so
\* the makemove() the caller calls with it succeeds.
C38_PvIsLegalLine ==
  Searched =>
    /\ LegalLine(d, SubSeq(d.pv[1], 1, d.pv_length[1]), 1)
    /\ d.pv[1][1] # 0 => d.pv[1][1] \in LegalMoves(d)

\* think() has returned after three iterations or more with a line of three
\* moves or more, the last of them added by quiesce()
C38_LongLine ==
  /\ Searched
  /\ seen.iters >= 3
  /\ ~seen.timed
  /\ d.pv_length[1] > seen.iters
  /\ LegalLine(d, SubSeq(d.pv[1], 1, d.pv_length[1]), 1)

\* think() has returned after a timeout in its second iteration or later,
\* the root having begun the iteration's line anew: pv_length[0] is 0 and
\* pv[0][0] is still the move of the iteration before
C38_MoveOfEarlierIteration ==
  /\ Searched
  /\ seen.timed
  /\ d.pv_length[1] = 0
  /\ d.pv[1][1] # 0
  /\ d.pv[1][1] \in LegalMoves(d)

\* ------------------------------------------- search() and plain negamax

\* the captures and promotions gen_caps() lists that makemove() accepts
LegalCaptures(x) ==
  LET y == gen_caps(x)
  IN  {y.gen_dat[k].m : k \in {i \in y.first_move[y.ply + 1] + 1 .. y.first_move[y.ply + 2] :
                                 makemove(y, y.gen_dat[i].m).ok}}

\* quiesce() without alpha, beta and cutoffs: the better of eval() and of
\* the best capture, under the same depth caps
RECURSIVE PlainQuiesce(_)
PlainQuiesce(x) ==
  IF TooDeep(x) THEN eval(x)
  ELSE CHOOSE r \in {Max(S) : S \in {{eval(x)} \cup
                        {-PlainQuiesce(makemove(x, m).d) : m \in LegalCaptures(x)}}} : TRUE

\* search() without alpha, beta and cutoffs, under the same rules: quiesce
\* at depth 0, 0 for a repetition below the root, eval() when too deep, one
\* ply more when in check, the mate score or 0 without a legal move, 0 when
\* the halfmove clock is at 100, else the best of the moves
RECURSIVE PlainSearch(_, _)
PlainSearch(x, depth) ==
  IF depth = 0 THEN PlainQuiesce(x)
  ELSE IF Repeated(x) THEN 0
  ELSE IF TooDeep(x) THEN eval(x)
  ELSE IF LegalMoves(x) = {}
    THEN IF in_check(x, x.side) THEN -10000 + x.ply ELSE 0
  ELSE IF x.fifty >= 100 THEN 0
  ELSE CHOOSE r \in {Max(S) : S \in {{-PlainSearch(makemove(x, m).d,
                                           IF in_check(x, x.side) THEN depth ELSE depth - 1) :
                                        m \in LegalMoves(x)}}} : TRUE

\* the most men on the board and the deepest iteration for which the plain
\* negamax is computed
MaxMen == 8
MaxPlain == 2

\* the root search() of an iteration has returned a value to think(), for a
\* position and a depth within these bounds
RootValued ==
  /\ pc = "ret"
  /\ Top.fn = "think"
  /\ Top.i <= MaxPlain
  /\ Cardinality({i \in 1..64 : d.color[i] # EMPTY}) <= MaxMen

\* C39 as stated: the value the root search() returns is the value of the
\* negamax run without cutoffs under the same terminal rules.
C39_ValueOfPlainNegamax ==
  RootValued => ret = PlainSearch(d, Top.i)

\* the same where no node of the search can have the halfmove clock at 100
C39_PlainBelowTheClock ==
  (RootValued /\ d.fifty + Top.i + 1 < 100) => ret = PlainSearch(d, Top.i)

\* with the halfmove clock at 99 the root search() of depth 2 has returned
\* less than 0 though a move of the king, after which the clock is at 100
\* and the other side has a legal move, is worth 0 in the plain negamax
C39_DrawnMoveCutOff ==
  /\ RootValued
  /\ Top.i = 2
  /\ d.fifty = 99
  /\ ret < 0
  /\ PlainSearch(d, 2) = 0
  /\ \E m \in LegalMoves(d) :
        /\ makemove(d, m).d.fifty = 100
        /\ LegalMoves(makemove(d, m).d) # {}
        /\ ~Repeated(makemove(d, m).d)

\* ------------------------------------------------ reps() and the history

\* the last n entries of hist_dat[0 .. hply) are those of the moves that led
\* to the position of x: each holds the hash of the position its move was
\* made in, and making its move in the position takeback() restores from
\* it gives the position that follows, halfmove clock, castle rights and en
\* passant square included
StillApplied(x, n) ==
  \/ n = 0
  \/ /\ x.hply >= n
     /\ x.hply <= Len(x.hist_dat)
     /\ \E early \in {Earlier(x, n)} :
          \A k \in 1..n :
            LET y == early[k]
                z == IF k = 1 THEN x ELSE early[k - 1]
                h == x.hist_dat[z.hply]
            IN  /\ z.hply = x.hply - k + 1
                /\ h.hash = set_hash(y).hash
                /\ \E r \in {makemove(y, h.m)} : r.ok /\ Pos(r.d) = Pos(z)

\* C40: in every state reached from init_board() or from the bench set-up
\* by makemove() and takeback(), 0 <= fifty <= hply, so the range
\* hply - fifty .. hply that reps() scans starts at 0 or above, and each
\* entry in it was written by a move that is still applied.
C40_FiftyWithinHistory ==
  /\ 0 <= d.fifty
  /\ d.fifty <= d.hply
  /\ StillApplied(d, d.fifty)

\* search() is at a node below the root whose position occurred before:
\* reps() has scanned a range that starts above 0, ends below entries left
\* by moves taken back, and has found the position in it
C40_ScannedAboveTakenBack ==
  /\ pc = "loop"
  /\ d.ply > 0
  /\ d.fifty >= 4
  /\ d.hply - d.fifty > 0
  /\ Len(d.hist_dat) > d.hply
  /\ reps(d) > 0

====
